---- MODULE Spec2Model ----
(***************************************************************************)
(* A model of the HTML/SVG pipeline of crates/html: the node arena and its *)
(* tree links (arena.rs), the pre-order walk, and the dependency collector *)
(* (dependencies.rs, srcset.rs).                                           *)
(*                                                                         *)
(* Strings of the program are sequences of one-character strings, so that  *)
(* is_empty, starts_with, contains, split_once and the srcset tokenizer    *)
(* are computed character by character.  Interned names (element and       *)
(* attribute local names, namespaces) are TLA+ strings: the code only      *)
(* compares them.                                                          *)
(***************************************************************************)
EXTENDS Integers, Sequences, FiniteSets, TLC

VARIABLES
  parent,             \* Node.parent            (arena.rs:46)
  next_sibling,       \* Node.next_sibling      (arena.rs:47)
  previous_sibling,   \* Node.previous_sibling  (arena.rs:48)
  first_child,        \* Node.first_child       (arena.rs:49)
  last_child,         \* Node.last_child        (arena.rs:50)
  data,               \* Node.data and Node.line (arena.rs:51-52)
  allocated,          \* number of nodes the typed arena has handed out
  cur,                \* walk: the node whose walk() call is about to visit it
  stack,              \* walk: the `node` local of every active walk() call
  visited,            \* the nodes the visitor was called on, in call order
  deps,               \* DependencyCollector.deps
  assets,             \* DependencyCollector.assets
  errors,             \* DependencyCollector.errors
  has_module_scripts, \* DependencyCollector.has_module_scripts
  opts,               \* scope_hoist, supports_esm, hmr
  origins,            \* history: where each dependency and asset was found
  given,              \* history: the tree collect was called on
  calls,              \* number of tree operations the caller has made
  misused,            \* history: some call moved a node under itself
  out,                \* the bytes the serializer's writer holds
  result,             \* what the library call returned to its caller
  pc,                 \* which operation of the run is next
  map,                \* Interner.map                   (intern.rs:22)
  leaked,             \* the leaked Entry boxes, by address (intern.rs:54)
  threads,            \* where each thread is in Interner::intern
  interned,           \* history: the Interned values intern has returned
  graph,              \* RequestTracker.graph: the weight of each node
  request_index,      \* RequestTracker.request_index (request_tracker.rs:22)
  frames,             \* the active run_child_request calls, innermost last
  history,            \* history: what each call did and returned
  serializer,         \* the HtmlSerializer of a serialize call in progress
  position,           \* where serialize_node is in the tree
  opened              \* history: the elements started and not yet ended

vars == <<parent, next_sibling, previous_sibling, first_child, last_child, data,
          allocated, cur, stack, visited, deps, assets, errors,
          has_module_scripts, opts, origins, given, calls, misused, out,
          result, pc, map, leaked, threads, interned, graph, request_index,
          frames, history, serializer, position, opened>>

linkVars == <<parent, next_sibling, previous_sibling, first_child, last_child>>
walkVars == <<cur, stack, visited>>
ioVars == <<out, result>>
collectorVars == <<deps, assets, errors, has_module_scripts, opts, origins, given, ioVars>>
internVars == <<map, leaked, threads, interned>>
trackerVars == <<graph, request_index, frames, history>>
coreVars == <<internVars, trackerVars>>
serializerVars == <<serializer, position, opened>>
htmlVars == <<linkVars, data, allocated, walkVars, collectorVars, calls, misused, pc,
              serializerVars>>

\* the state of the interner and of the request tracker in the runs that do
\* not use them
\* no serialize call is in progress
IdleSerializer == serializer = <<>> /\ position = <<>> /\ opened = <<>>

IdleCore ==
  /\ map = <<>> /\ leaked = <<>> /\ threads = <<>> /\ interned = {}
  /\ graph = <<>> /\ request_index = <<>> /\ frames = <<>> /\ history = <<>>

(***************************************************************************)
(* Bounds.                                                                 *)
(***************************************************************************)
\* nodes of the arena the tree operations are applied to
MaxNodes == 4

\* nodes of the tree that is built and then walked; node 1 is its Document
MaxTreeNodes == 4

\* tree operations one run of the caller makes
MaxCalls == 4

\* Option::None of a Link
None == 0

ArenaNodes == 1..MaxNodes

TreeNodes == 1..MaxTreeNodes

\* the Document node of a tree (Sink::new allocates it first)
Document == 1

(***************************************************************************)
(* Strings.  A string of the program is a sequence of characters, each a   *)
(* one-character TLA+ string.  The string literals of dependencies.rs:     *)
(***************************************************************************)
str_module == <<"m", "o", "d", "u", "l", "e">>

str_application_json == <<"a", "p", "p", "l", "i", "c", "a", "t", "i", "o", "n", "/", "j", "s", "o", "n">>

str_text_html == <<"t", "e", "x", "t", "/", "h", "t", "m", "l">>

str_importmap == <<"i", "m", "p", "o", "r", "t", "m", "a", "p">>

str_application_javascript == <<"a", "p", "p", "l", "i", "c", "a", "t", "i", "o", "n", "/", "j", "a", "v", "a", "s", "c", "r", "i", "p", "t">>

str_text_css == <<"t", "e", "x", "t", "/", "c", "s", "s">>

str_canonical == <<"c", "a", "n", "o", "n", "i", "c", "a", "l">>

str_manifest == <<"m", "a", "n", "i", "f", "e", "s", "t">>

str_stylesheet == <<"s", "t", "y", "l", "e", "s", "h", "e", "e", "t">>

str_alternate == <<"a", "l", "t", "e", "r", "n", "a", "t", "e">>

str_application_rss_xml == <<"a", "p", "p", "l", "i", "c", "a", "t", "i", "o", "n", "/", "r", "s", "s", "+", "x", "m", "l">>

str_application_atom_xml == <<"a", "p", "p", "l", "i", "c", "a", "t", "i", "o", "n", "/", "a", "t", "o", "m", "+", "x", "m", "l">>

str_webmanifest_colon == <<"w", "e", "b", "m", "a", "n", "i", "f", "e", "s", "t", ":">>

str_hmr_js == <<"h", "m", "r", ".", "j", "s">>

str_none == <<"n", "o", "n", "e">>

str_url_paren == <<"u", "r", "l", "(">>

str_twitter_image == <<"t", "w", "i", "t", "t", "e", "r", ":", "i", "m", "a", "g", "e">>

str_msapplication_config == <<"m", "s", "a", "p", "p", "l", "i", "c", "a", "t", "i", "o", "n", "-", "c", "o", "n", "f", "i", "g">>

\* dependencies.rs:438-448
MetaProperties ==
  {<<"o", "g", ":", "i", "m", "a", "g", "e">>,
   <<"o", "g", ":", "i", "m", "a", "g", "e", ":", "u", "r", "l">>,
   <<"o", "g", ":", "i", "m", "a", "g", "e", ":", "s", "e", "c", "u", "r", "e", "_", "u", "r", "l">>,
   <<"o", "g", ":", "a", "u", "d", "i", "o">>,
   <<"o", "g", ":", "a", "u", "d", "i", "o", ":", "s", "e", "c", "u", "r", "e", "_", "u", "r", "l">>,
   <<"o", "g", ":", "v", "i", "d", "e", "o">>,
   <<"o", "g", ":", "v", "i", "d", "e", "o", ":", "s", "e", "c", "u", "r", "e", "_", "u", "r", "l">>,
   <<"v", "k", ":", "i", "m", "a", "g", "e">>}

\* dependencies.rs:457-464
MetaTileNames ==
  {<<"m", "s", "a", "p", "p", "l", "i", "c", "a", "t", "i", "o", "n", "-", "s", "q", "u", "a", "r", "e", "1", "5", "0", "x", "1", "5", "0", "l", "o", "g", "o">>,
   <<"m", "s", "a", "p", "p", "l", "i", "c", "a", "t", "i", "o", "n", "-", "s", "q", "u", "a", "r", "e", "3", "1", "0", "x", "3", "1", "0", "l", "o", "g", "o">>,
   <<"m", "s", "a", "p", "p", "l", "i", "c", "a", "t", "i", "o", "n", "-", "s", "q", "u", "a", "r", "e", "7", "0", "x", "7", "0", "l", "o", "g", "o">>,
   <<"m", "s", "a", "p", "p", "l", "i", "c", "a", "t", "i", "o", "n", "-", "w", "i", "d", "e", "3", "1", "0", "x", "1", "5", "0", "l", "o", "g", "o">>,
   <<"m", "s", "a", "p", "p", "l", "i", "c", "a", "t", "i", "o", "n", "-", "T", "i", "l", "e", "I", "m", "a", "g", "e">>}

\* dependencies.rs:468-471
MetaItemprops ==
  {<<"i", "m", "a", "g", "e">>,
   <<"l", "o", "g", "o">>,
   <<"s", "c", "r", "e", "e", "n", "s", "h", "o", "t">>,
   <<"t", "h", "u", "m", "b", "n", "a", "i", "l", "U", "r", "l">>,
   <<"c", "o", "n", "t", "e", "n", "t", "U", "r", "l">>,
   <<"d", "o", "w", "n", "l", "o", "a", "d", "U", "r", "l">>}

\* Option::None of an Option<StrTendril>: a value no string equals
Absent == <<"Option::None">>

\* char::is_ascii_whitespace: space, tab, line feed, form feed, carriage return
is_ascii_whitespace(c) == c \in {" ", "\t", "\n", "\f", "\r"}

is_empty(s) == Len(s) = 0

starts_with(s, prefix) ==
  Len(s) >= Len(prefix) /\ SubSeq(s, 1, Len(prefix)) = prefix

ends_with_char(s, c) == Len(s) > 0 /\ s[Len(s)] = c

contains(s, c) == \E i \in 1..Len(s) : s[i] = c

\* str::find / str::rfind of one character: the 0-based index, or -1 for None
find_char(s, c) ==
  IF contains(s, c) THEN (CHOOSE i \in 1..Len(s) : s[i] = c /\ \A j \in 1..(i - 1) : s[j] # c) - 1
  ELSE -1

rfind_char(s, c) ==
  IF contains(s, c)
  THEN (CHOOSE i \in 1..Len(s) : s[i] = c /\ \A j \in (i + 1)..Len(s) : s[j] # c) - 1
  ELSE -1

\* the longest prefix of s whose characters are all in the set cs
RECURSIVE PrefixLen(_, _)
PrefixLen(s, cs) ==
  IF s = <<>> \/ s[1] \notin cs THEN 0 ELSE 1 + PrefixLen(Tail(s), cs)

\* the longest prefix of s none of whose characters is in the set cs
RECURSIVE PrefixLenNot(_, _)
PrefixLenNot(s, cs) ==
  IF s = <<>> \/ s[1] \in cs THEN 0 ELSE 1 + PrefixLenNot(Tail(s), cs)

Drop(s, n) == SubSeq(s, n + 1, Len(s))

Take(s, n) == SubSeq(s, 1, n)

RECURSIVE Concat(_)
Concat(ss) == IF ss = <<>> THEN <<>> ELSE Head(ss) \o Concat(Tail(ss))

(***************************************************************************)
(* std::hash::DefaultHasher.  The hasher is deterministic (fixed keys) and *)
(* its 64-bit result is taken to differ whenever the hashed byte streams   *)
(* differ; the model keeps the stream itself as the hash value.  A stream  *)
(* is the sequence of writes the Hash impls make: a Tendril hashes as a    *)
(* byte slice (length, then bytes), a String as a str (bytes, then 0xff),  *)
(* a bool as one byte, a fieldless enum as its discriminant.               *)
(***************************************************************************)
hash_tendril(s) == <<"len", ToString(Len(s))>> \o s

hash_str(s) == s \o <<"0xff">>

hash_bool(b) == IF b THEN <<"u8:1">> ELSE <<"u8:0">>

\* the declaration order of each enum (dependencies.rs:43-71)
Discriminant(v) ==
  CASE v \in {"Sync", "None"} -> 0
    [] v \in {"Parallel", "Global", "Module", "Isolated"} -> 1
    [] v \in {"Lazy", "Esmodule", "Script", "Inline"} -> 2

hash_enum(v) == <<"isize", ToString(Discriminant(v))>>

\* format!("{:x}", hasher.finish()): one lowercase hexadecimal number, kept
\* as a single token (no whitespace, comma, '.', ':' or '#' in it)
finish_hex(stream) == <<ToString(stream)>>

(***************************************************************************)
(* srcset.rs.  An i64 is four 16-bit limbs, least significant first, so    *)
(* that checked_mul/checked_add overflow and the `as u32` cast are         *)
(* computed at their real widths.                                          *)
(***************************************************************************)
DigitChars == <<"0", "1", "2", "3", "4", "5", "6", "7", "8", "9">>

is_ascii_digit(c) == \E i \in 1..10 : DigitChars[i] = c

DigitValue(c) == (CHOOSE i \in 1..10 : DigitChars[i] = c) - 1

\* HTML_SPACE_CHARACTERS (srcset.rs:322-323)
HTML_SPACE_CHARACTERS == {" ", "\t", "\n", "\f", "\r"}

ZeroLimbs == <<0, 0, 0, 0>>

\* accumulator.checked_mul(10).and_then(|a| a.checked_add(d)): the limbs of
\* 10 * v + d, or overflow when the result does not fit an i64
MulAdd(v, d) ==
  LET t0 == v[1] * 10 + d
      t1 == v[2] * 10 + (t0 \div 65536)
      t2 == v[3] * 10 + (t1 \div 65536)
      t3 == v[4] * 10 + (t2 \div 65536)
  IN  IF t3 >= 32768 THEN [ok |-> FALSE, v |-> ZeroLimbs]
      ELSE [ok |-> TRUE, v |-> <<t0 % 65536, t1 % 65536, t2 % 65536, t3>>]

\* the fold of read_numbers over the leading digits of s
RECURSIVE FoldDigits(_, _)
FoldDigits(s, acc) ==
  IF s = <<>> \/ ~is_ascii_digit(s[1]) THEN acc
  ELSE FoldDigits(Tail(s),
                  IF acc.ok THEN MulAdd(acc.v, DigitValue(s[1])) ELSE acc)

read_numbers(s) ==
  IF s = <<>> \/ ~is_ascii_digit(s[1]) THEN [ok |-> FALSE, v |-> ZeroLimbs]
  ELSE FoldDigits(s, [ok |-> TRUE, v |-> ZeroLimbs])

\* parse_integer: Ok(value) as [ok, neg, v], the sign kept beside the limbs
parse_integer(input) ==
  LET s == Drop(input, PrefixLen(input, HTML_SPACE_CHARACTERS))
  IN  IF s = <<>> THEN [ok |-> FALSE, neg |-> FALSE, v |-> ZeroLimbs]
      ELSE LET neg  == s[1] = "-"
               rest == IF s[1] \in {"-", "+"} THEN Tail(s) ELSE s
               r    == read_numbers(rest)
           IN  [ok |-> r.ok, neg |-> neg /\ r.ok /\ r.v # ZeroLimbs, v |-> r.v]

\* `Ok(number) if number > 0`
IsPositive(r) == r.ok /\ ~r.neg /\ r.v # ZeroLimbs

\* a cast that keeps only the low 16 bits
as_u32_low16(r) == <<r.v[1], 0>>

\* `number as u32`: the low 32 bits
as_u32(r) == <<r.v[1], r.v[2]>>

\* Display of a u32 given as two 16-bit limbs: its decimal digits
RECURSIVE U32Digits(_)
U32Digits(w) ==
  LET hi == w[2]
      t  == (hi % 10) * 65536 + w[1]
      q  == <<t \div 10, hi \div 10>>
      d  == <<DigitChars[(t % 10) + 1]>>
  IN  IF q = <<0, 0>> THEN d ELSE U32Digits(<<q[1] % 65536, q[2] + (q[1] \div 65536)>>) \o d

(***************************************************************************)
(* str::parse::<f64> and Display of f64, for the decimal numbers without   *)
(* an exponent (an optional sign, digits, at most one '.'): the value is   *)
(* kept as its shortest decimal form, which is what Display prints.        *)
(* Numbers with an exponent, "inf" and "nan" are outside the inputs of the *)
(* model.                                                                  *)
(***************************************************************************)
RECURSIVE StripLeadingZeros(_)
StripLeadingZeros(s) ==
  IF s # <<>> /\ s[1] = "0" THEN StripLeadingZeros(Tail(s)) ELSE s

RECURSIVE StripTrailingZeros(_)
StripTrailingZeros(s) ==
  IF s # <<>> /\ s[Len(s)] = "0" THEN StripTrailingZeros(Take(s, Len(s) - 1)) ELSE s

parse_f64(input) ==
  LET neg  == input # <<>> /\ input[1] = "-"
      s    == IF input # <<>> /\ input[1] \in {"-", "+"} THEN Tail(input) ELSE input
      n    == PrefixLen(s, {DigitChars[i] : i \in 1..10})
      ip   == Take(s, n)
      rest == Drop(s, n)
      fp   == IF rest # <<>> /\ rest[1] = "." THEN Tail(rest) ELSE <<>>
      okfp == PrefixLen(fp, {DigitChars[i] : i \in 1..10}) = Len(fp)
      ok   == /\ (rest = <<>> \/ rest[1] = ".") /\ okfp
              /\ Len(ip) + Len(fp) > 0
  IN  [ok |-> ok, neg |-> neg,
       int |-> StripLeadingZeros(ip), frac |-> StripTrailingZeros(fp)]

\* `Ok(number) if number.is_normal() && number > 0.`
IsNormalPositive(r) == r.ok /\ ~r.neg /\ (r.int # <<>> \/ r.frac # <<>>)

F64Display(r) ==
  (IF r.int = <<>> THEN <<"0">> ELSE r.int)
    \o (IF r.frac = <<>> THEN <<>> ELSE <<".">> \o r.frac)

(***************************************************************************)
(* ImageSource, Descriptor and their Display (srcset.rs:14-46).            *)
(***************************************************************************)
NoWidth == <<>>
NoDensity == [ok |-> FALSE]

ImageSource(url, width, density) == [url |-> url, width |-> width, density |-> density]

DescriptorDisplay(img) ==
  (IF img.width # NoWidth THEN U32Digits(img.width) \o <<"w">> ELSE <<>>)
    \o (IF img.density # NoDensity THEN F64Display(img.density) \o <<"x">> ELSE <<>>)

ImageSourceDisplay(img) ==
  img.url \o (IF img.width # NoWidth \/ img.density # NoDensity
              THEN <<" ">> \o DescriptorDisplay(img) ELSE <<>>)

(***************************************************************************)
(* parse_srcset (srcset.rs:50-309).                                        *)
(***************************************************************************)
WhitespaceChars == {" ", "\t", "\n", "\f", "\r"}

\* the descriptor tokenizer (srcset.rs:135-207): ds is the input after the
\* whitespace that follows the url, i the position of `character` (past the
\* end: None).  The result holds the descriptors and the number of
\* characters of ds that current_index has been advanced by.
RECURSIVE Tokenize(_, _, _, _, _)
Tokenize(ds, i, state, cd, descs) ==
  LET eof  == i > Len(ds)
      c    == IF eof THEN "" ELSE ds[i]
      used == IF eof THEN Len(ds) ELSE i
      push == IF cd # <<>> THEN Append(descs, cd) ELSE descs
  IN  CASE state = "InDescriptor" /\ ~eof /\ is_ascii_whitespace(c) ->
             IF cd # <<>> THEN Tokenize(ds, i + 1, "AfterDescriptor", <<>>, Append(descs, cd))
             ELSE Tokenize(ds, i + 1, state, cd, descs)
        [] state = "InDescriptor" /\ ~eof /\ c = "," ->
             [descriptors |-> push, used |-> used]
        [] state = "InDescriptor" /\ ~eof /\ c = "(" ->
             Tokenize(ds, i + 1, "InParens", Append(cd, c), descs)
        [] state = "InDescriptor" /\ ~eof /\ ~is_ascii_whitespace(c) /\ c \notin {",", "("} ->
             Tokenize(ds, i + 1, state, Append(cd, c), descs)
        [] state = "InDescriptor" /\ eof ->
             [descriptors |-> push, used |-> used]
        [] state = "InParens" /\ ~eof /\ c = ")" ->
             Tokenize(ds, i + 1, "InDescriptor", Append(cd, c), descs)
        [] state = "InParens" /\ ~eof /\ c # ")" ->
             Tokenize(ds, i + 1, state, Append(cd, c), descs)
        [] state = "InParens" /\ eof ->
             [descriptors |-> Append(descs, cd), used |-> used]
        [] state = "AfterDescriptor" /\ ~eof /\ is_ascii_whitespace(c) ->
             Tokenize(ds, i + 1, state, cd, descs)
        [] state = "AfterDescriptor" /\ ~eof /\ ~is_ascii_whitespace(c) ->
             Tokenize(ds, i, "InDescriptor", cd, descs)
        [] state = "AfterDescriptor" /\ eof ->
             [descriptors |-> descs, used |-> used]

\* the descriptor parser (srcset.rs:209-298): st holds error, width, density
\* and future_compat_h; the for loop stops at the first error
RECURSIVE ParseDescriptors(_, _)
ParseDescriptors(descs, st) ==
  IF descs = <<>> THEN st
  ELSE
    LET d     == Head(descs)
        last  == d[Len(d)]
        first == Take(d, Len(d) - 1)
        int   == parse_integer(first)
        flt   == parse_f64(first)
    IN  CASE last = "w" /\ st.density = NoDensity /\ st.width = NoWidth ->
               IF IsPositive(int)
               THEN ParseDescriptors(Tail(descs), [st EXCEPT !.width = as_u32(int)])
               ELSE [st EXCEPT !.error = TRUE]
          [] last = "x" /\ st.width = NoWidth /\ st.density = NoDensity /\ ~st.h ->
               IF IsNormalPositive(flt)
               THEN ParseDescriptors(Tail(descs), [st EXCEPT !.density = flt])
               ELSE [st EXCEPT !.error = TRUE]
          [] last = "h" /\ ~st.h /\ st.density = NoDensity ->
               IF IsPositive(int)
               THEN ParseDescriptors(Tail(descs), [st EXCEPT !.h = TRUE])
               ELSE [st EXCEPT !.error = TRUE]
          [] OTHER -> [st EXCEPT !.error = TRUE]

\* url.trim_end_matches(',')
RECURSIVE trim_end_commas(_)
trim_end_commas(url) ==
  IF ends_with_char(url, ",") THEN trim_end_commas(Take(url, Len(url) - 1)) ELSE url

\* the `while current_index < input.len()` loop; current_index is 0-based
RECURSIVE ParseSrcsetLoop(_, _, _)
ParseSrcsetLoop(input, current_index, candidates) ==
  IF current_index >= Len(input) THEN candidates
  ELSE
    LET remaining == Drop(input, current_index)
        ncoll     == PrefixLen(remaining, WhitespaceChars \cup {","})
        collected_comma == contains(Take(remaining, ncoll), ",")
        after_ws  == Drop(remaining, ncoll)
        url       == Take(after_ws, PrefixLenNot(after_ws, WhitespaceChars))
        idx_url   == current_index + ncoll + Len(url)
        dstr      == Drop(input, idx_url)
        nspaces   == PrefixLen(dstr, WhitespaceChars)
        tok       == Tokenize(Drop(dstr, nspaces), 1, "InDescriptor", <<>>, <<>>)
        parsed    == ParseDescriptors(tok.descriptors,
                       [error |-> FALSE, width |-> NoWidth,
                        density |-> NoDensity, h |-> FALSE])
        error     == parsed.error \/ (parsed.h /\ parsed.width = NoWidth)
    IN  IF collected_comma THEN <<>>
        ELSE IF after_ws = <<>> THEN candidates
        ELSE IF ends_with_char(url, ",")
        THEN ParseSrcsetLoop(input, idx_url,
               Append(candidates, ImageSource(trim_end_commas(url), NoWidth, NoDensity)))
        ELSE ParseSrcsetLoop(input, idx_url + nspaces + tok.used,
               IF error THEN candidates
               ELSE Append(candidates, ImageSource(url, parsed.width, parsed.density)))

parse_srcset(input) == ParseSrcsetLoop(input, 0, <<>>)

(***************************************************************************)
(* Node data (arena.rs:55-80) and the attribute operations                 *)
(* (arena.rs:223-258).  An attribute is [ns, local, value]; names are      *)
(* compared by their expanded name (namespace and local name).             *)
(***************************************************************************)
Attr(ns, local, value) == [ns |-> ns, local |-> local, value |-> value]

ElementData(ns, local, attrs, line) ==
  [kind |-> "Element", ns |-> ns, local |-> local, attrs |-> attrs,
   contents |-> <<>>, target |-> <<>>, line |-> line]

TextData(contents, line) ==
  [kind |-> "Text", ns |-> "", local |-> "", attrs |-> <<>>,
   contents |-> contents, target |-> <<>>, line |-> line]

CommentData(contents, line) ==
  [kind |-> "Comment", ns |-> "", local |-> "", attrs |-> <<>>,
   contents |-> contents, target |-> <<>>, line |-> line]

PIData(target, contents, line) ==
  [kind |-> "ProcessingInstruction", ns |-> "", local |-> "", attrs |-> <<>>,
   contents |-> contents, target |-> target, line |-> line]

DocumentData ==
  [kind |-> "Document", ns |-> "", local |-> "", attrs |-> <<>>,
   contents |-> <<>>, target |-> <<>>, line |-> 1]

\* the index of the first attribute with this expanded name, or 0
AttrIndex(d, ns, local) ==
  IF \E i \in 1..Len(d.attrs) : d.attrs[i].ns = ns /\ d.attrs[i].local = local
  THEN CHOOSE i \in 1..Len(d.attrs) :
         /\ d.attrs[i].ns = ns /\ d.attrs[i].local = local
         /\ \A j \in 1..(i - 1) : ~(d.attrs[j].ns = ns /\ d.attrs[j].local = local)
  ELSE 0

has_attribute(d, ns, local) == d.kind = "Element" /\ AttrIndex(d, ns, local) # 0

get_attribute(d, ns, local) ==
  IF has_attribute(d, ns, local) THEN d.attrs[AttrIndex(d, ns, local)].value
  ELSE Absent

\* a set_attribute that always pushes a new attribute
set_attribute_push(d, ns, local, value) ==
  IF d.kind # "Element" THEN d
  ELSE [d EXCEPT !.attrs = Append(@, Attr(ns, local, value))]

set_attribute(d, ns, local, value) ==
  IF d.kind # "Element" THEN d
  ELSE IF AttrIndex(d, ns, local) # 0
       THEN [d EXCEPT !.attrs[AttrIndex(d, ns, local)].value = value]
       ELSE [d EXCEPT !.attrs = Append(@, Attr(ns, local, value))]

remove_attribute(d, ns, local) ==
  IF d.kind # "Element" \/ AttrIndex(d, ns, local) = 0 THEN d
  ELSE LET i == AttrIndex(d, ns, local)
       IN  [d EXCEPT !.attrs = SubSeq(@, 1, i - 1) \o SubSeq(@, i + 1, Len(@))]

(***************************************************************************)
(* arena.rs: the five links of every node, as one record of functions, and *)
(* the tree operations as functions from links to links.  Every operation  *)
(* is the sequence of Cell reads and writes of its source, in order, so    *)
(* that aliased arguments (a node appended to itself) behave as the code.  *)
(***************************************************************************)
Links ==
  [parent |-> parent, next_sibling |-> next_sibling,
   previous_sibling |-> previous_sibling,
   first_child |-> first_child, last_child |-> last_child]

SetLinksInit(L) ==
  /\ parent = L.parent
  /\ next_sibling = L.next_sibling
  /\ previous_sibling = L.previous_sibling
  /\ first_child = L.first_child
  /\ last_child = L.last_child

SetLinks(L) ==
  /\ parent' = L.parent
  /\ next_sibling' = L.next_sibling
  /\ previous_sibling' = L.previous_sibling
  /\ first_child' = L.first_child
  /\ last_child' = L.last_child

EmptyLinks(S) ==
  [parent |-> [n \in S |-> None], next_sibling |-> [n \in S |-> None],
   previous_sibling |-> [n \in S |-> None],
   first_child |-> [n \in S |-> None], last_child |-> [n \in S |-> None]]

\* a detach that forgets to repair parent.first_child
detach_no_first_repair(L, self) ==
  LET p    == L.parent[self]
      prev == L.previous_sibling[self]
      next == L.next_sibling[self]
      L1 == [L EXCEPT !.parent[self] = None,
                      !.previous_sibling[self] = None,
                      !.next_sibling[self] = None]
      L2 == IF next # None THEN [L1 EXCEPT !.previous_sibling[next] = prev]
            ELSE IF p # None THEN [L1 EXCEPT !.last_child[p] = prev]
            ELSE L1
  IN  IF prev # None THEN [L2 EXCEPT !.next_sibling[prev] = next] ELSE L2

detach(L, self) ==
  LET p    == L.parent[self]
      prev == L.previous_sibling[self]
      next == L.next_sibling[self]
      L1 == [L EXCEPT !.parent[self] = None,
                      !.previous_sibling[self] = None,
                      !.next_sibling[self] = None]
      L2 == IF next # None THEN [L1 EXCEPT !.previous_sibling[next] = prev]
            ELSE IF p # None THEN [L1 EXCEPT !.last_child[p] = prev]
            ELSE L1
  IN  IF prev # None THEN [L2 EXCEPT !.next_sibling[prev] = next]
      ELSE IF p # None THEN [L2 EXCEPT !.first_child[p] = next]
      ELSE L2

append(L, self, new_child) ==
  LET L1 == detach(L, new_child)
      L2 == [L1 EXCEPT !.parent[new_child] = self]
      last == L2.last_child[self]
      L3 == [L2 EXCEPT !.last_child[self] = None]
      L4 == IF last # None
            THEN [L3 EXCEPT !.previous_sibling[new_child] = last,
                            !.next_sibling[last] = new_child]
            ELSE [L3 EXCEPT !.first_child[self] = new_child]
  IN  [L4 EXCEPT !.last_child[self] = new_child]

prepend(L, self, new_child) ==
  LET L1 == detach(L, new_child)
      L2 == [L1 EXCEPT !.parent[new_child] = self]
      first == L2.first_child[self]
      L3 == [L2 EXCEPT !.first_child[self] = None]
      L4 == IF first # None
            THEN [L3 EXCEPT !.next_sibling[new_child] = first,
                            !.previous_sibling[first] = new_child]
            ELSE [L3 EXCEPT !.last_child[self] = new_child]
  IN  [L4 EXCEPT !.first_child[self] = new_child]

\* an insert_before that does not read the cursor's previous sibling
insert_before_as_first(L, self, new_sibling) ==
  LET L1 == detach(L, new_sibling)
      L2 == [L1 EXCEPT !.parent[new_sibling] = L1.parent[self]]
      L3 == [L2 EXCEPT !.next_sibling[new_sibling] = self]
      L5 == IF L3.parent[self] # None
            THEN [L3 EXCEPT !.first_child[L3.parent[self]] = new_sibling]
            ELSE L3
  IN  [L5 EXCEPT !.previous_sibling[self] = new_sibling]

insert_before(L, self, new_sibling) ==
  LET L1 == detach(L, new_sibling)
      L2 == [L1 EXCEPT !.parent[new_sibling] = L1.parent[self]]
      L3 == [L2 EXCEPT !.next_sibling[new_sibling] = self]
      prev == L3.previous_sibling[self]
      L4 == [L3 EXCEPT !.previous_sibling[self] = None]
      L5 == IF prev # None
            THEN [L4 EXCEPT !.previous_sibling[new_sibling] = prev,
                            !.next_sibling[prev] = new_sibling]
            ELSE IF L4.parent[self] # None
            THEN [L4 EXCEPT !.first_child[L4.parent[self]] = new_sibling]
            ELSE L4
  IN  [L5 EXCEPT !.previous_sibling[self] = new_sibling]

(***************************************************************************)
(* The tree-shape invariants of the document model, over a set S of nodes. *)
(***************************************************************************)
\* the ancestors of n, following parent links at most Cardinality(S) times
RECURSIVE AncestorsUpTo(_, _, _)
AncestorsUpTo(L, n, k) ==
  IF k = 0 \/ L.parent[n] = None THEN {}
  ELSE {L.parent[n]} \cup AncestorsUpTo(L, L.parent[n], k - 1)

Ancestors(L, S, n) == AncestorsUpTo(L, n, Cardinality(S))

FirstLastShape(L, S) ==
  \A a \in S :
    /\ L.first_child[a] # None =>
         /\ L.parent[L.first_child[a]] = a
         /\ L.previous_sibling[L.first_child[a]] = None
    /\ L.last_child[a] # None =>
         /\ L.parent[L.last_child[a]] = a
         /\ L.next_sibling[L.last_child[a]] = None
    /\ (L.first_child[a] = None) <=> (L.last_child[a] = None)

SiblingShape(L, S) ==
  \A a \in S :
    /\ L.next_sibling[a] # None =>
         /\ L.previous_sibling[L.next_sibling[a]] = a
         /\ L.parent[L.next_sibling[a]] = L.parent[a]
    /\ L.previous_sibling[a] # None =>
         /\ L.next_sibling[L.previous_sibling[a]] = a
         /\ L.parent[L.previous_sibling[a]] = L.parent[a]

\* the child list of a: first_child, then next_sibling links, at most k steps
RECURSIVE ChainFrom(_, _, _)
ChainFrom(L, n, k) ==
  IF n = None \/ k = 0 THEN <<>>
  ELSE <<n>> \o ChainFrom(L, L.next_sibling[n], k - 1)

ChildList(L, S, a) == ChainFrom(L, L.first_child[a], Cardinality(S) + 1)

Range(s) == {s[i] : i \in 1..Len(s)}

\* the nodes reachable from a through child lists, in at most k levels
RECURSIVE DescendantsUpTo(_, _, _, _)
DescendantsUpTo(L, S, a, k) ==
  IF k = 0 THEN {}
  ELSE LET cs == Range(ChildList(L, S, a))
       IN  cs \cup UNION {DescendantsUpTo(L, S, c, k - 1) : c \in cs}

Descendants(L, S, a) == DescendantsUpTo(L, S, a, Cardinality(S))

\* no node occurs twice in one child list, in the child lists of two nodes,
\* or among its own descendants
Acyclic(L, S) ==
  /\ \A a \in S :
       LET cl == ChildList(L, S, a)
       IN  \A i, j \in 1..Len(cl) : cl[i] = cl[j] => i = j
  /\ \A a, b \in S :
       a # b => Range(ChildList(L, S, a)) \cap Range(ChildList(L, S, b)) = {}
  /\ \A a \in S : a \notin Descendants(L, S, a)
  /\ \A a \in S : a \notin Ancestors(L, S, a)

\* every child link agrees with the parent link: the members of a's child
\* list are exactly the nodes whose parent is a
ParentShape(L, S) ==
  \A a \in S : Range(ChildList(L, S, a)) = {c \in S : L.parent[c] = a}

\* the invariants as the document model states them
StatedShape(L, S) == FirstLastShape(L, S) /\ SiblingShape(L, S) /\ Acyclic(L, S)

\* the stated invariants and the agreement of parent links and child lists
TreeShape(L, S) == StatedShape(L, S) /\ ParentShape(L, S)

(***************************************************************************)
(* dependencies.rs.  The collector and the tree it rewrites are threaded   *)
(* through the handlers as one record S:                                   *)
(*   L, D       the links and the data of the arena's nodes                *)
(*   deps, assets, errors, has_module_scripts   the collector's fields     *)
(*   dep_origin, asset_origin   history: where each dependency and asset   *)
(*                              was found (not program state)              *)
(*   returned   the handler executed a `return`                            *)
(***************************************************************************)
Dependency(href, needs_stable_name, priority, output_format, source_type, bundle_behavior, placeholder, line) ==
  [href |-> href, needs_stable_name |-> needs_stable_name, priority |-> priority,
   output_format |-> output_format, source_type |-> source_type,
   bundle_behavior |-> bundle_behavior, placeholder |-> placeholder, line |-> line]

Asset(ty, content, key, is_attr, output_format, source_type, bundle_behavior, line) ==
  [ty |-> ty, content |-> content, key |-> key, is_attr |-> is_attr,
   output_format |-> output_format, source_type |-> source_type,
   bundle_behavior |-> bundle_behavior, line |-> line]

Error(message, line) == [message |-> message, line |-> line]

\* format!("'{}' should not be empty string", name)
EmptyMessage(name) == <<"'", name, "' should not be empty string">>

Origin(kind, node, ns, local) == [kind |-> kind, node |-> node, ns |-> ns, local |-> local]

\* a placeholder that also hashes the line
set_placeholder_with_line(dep) ==
  finish_hex(hash_tendril(dep.href) \o hash_bool(dep.needs_stable_name)
             \o hash_enum(dep.priority) \o hash_enum(dep.output_format)
             \o hash_enum(dep.source_type) \o hash_enum(dep.bundle_behavior)
             \o <<"u64", ToString(dep.line)>>)

\* Dependency::set_placeholder: the value it stores and returns
set_placeholder(dep) ==
  finish_hex(hash_tendril(dep.href) \o hash_bool(dep.needs_stable_name)
             \o hash_enum(dep.priority) \o hash_enum(dep.output_format)
             \o hash_enum(dep.source_type) \o hash_enum(dep.bundle_behavior))

WithPlaceholder(dep) == [dep EXCEPT !.placeholder = set_placeholder(dep)]

PushDep(S, dep, origin) ==
  [S EXCEPT !.deps = Append(@, dep), !.dep_origin = Append(@, origin)]

PushAsset(S, asset, origin) ==
  [S EXCEPT !.assets = Append(@, asset), !.asset_origin = Append(@, origin)]

PushError(S, err) == [S EXCEPT !.errors = Append(@, err)]

Return(S) == [S EXCEPT !.returned = TRUE]

SetAttr(S, node, ns, local, value) ==
  [S EXCEPT !.D[node] = set_attribute(@, ns, local, value)]

RemoveAttr(S, node, ns, local) ==
  [S EXCEPT !.D[node] = remove_attribute(@, ns, local)]

\* arena.alloc(Node::new(data, line)): the new node is the last of the arena
Alloc(S, d) ==
  [S EXCEPT !.D = Append(@, d),
            !.L = [parent |-> Append(@.parent, None),
                   next_sibling |-> Append(@.next_sibling, None),
                   previous_sibling |-> Append(@.previous_sibling, None),
                   first_child |-> Append(@.first_child, None),
                   last_child |-> Append(@.last_child, None)]]

NodesOf(D) == 1..Len(D)

\* Node::text_content: the contents of the Text children, concatenated
text_content(L, D, node) ==
  LET cl == ChildList(L, NodesOf(D), node)
  IN  Concat([i \in 1..Len(cl) |->
               IF D[cl[i]].kind = "Text" THEN D[cl[i]].contents ELSE <<>>])

\* the nodes under (and including) n in document order
RECURSIVE PreOrder(_, _, _, _)
PreOrder(L, S, n, k) ==
  IF k = 0 THEN <<n>>
  ELSE LET cl == ChildList(L, S, n)
       IN  <<n>> \o Concat([i \in 1..Len(cl) |-> PreOrder(L, S, cl[i], k - 1)])

\* Node::find: the first element with this expanded name, in document order
find(L, D, root, ns, local) ==
  LET po == PreOrder(L, NodesOf(D), root, Len(D))
      hit(i) == D[po[i]].kind = "Element" /\ D[po[i]].ns = ns /\ D[po[i]].local = local
  IN  IF \E i \in 1..Len(po) : hit(i)
      THEN po[CHOOSE i \in 1..Len(po) : hit(i) /\ \A j \in 1..(i - 1) : ~hit(j)]
      ELSE None

\* DependencyCollector::add_dep; the placeholder it returns is that of the
\* dependency it pushed last
add_dep(S, src, needs_stable_name, priority, line, origin) ==
  PushDep(S, WithPlaceholder(Dependency(src, needs_stable_name, priority, "None",
                                        "None", "None", <<>>, line)), origin)

LastPlaceholder(S) == S.deps[Len(S.deps)].placeholder

\* a handle_attr that treats the empty value like an id reference
handle_attr_skip_empty(S, node, ns, local, needs_stable_name, line) ==
  LET src == get_attribute(S.D[node], ns, local)
  IN  IF src = Absent \/ is_empty(src) \/ starts_with(src, <<"#">>) THEN S
      ELSE LET S1 == add_dep(S, src, needs_stable_name, "Lazy", line,
                             Origin("attr", node, ns, local))
           IN  SetAttr(S1, node, ns, local, LastPlaceholder(S1))

\* DependencyCollector::handle_attr
handle_attr(S, node, ns, local, needs_stable_name, line) ==
  LET src == get_attribute(S.D[node], ns, local)
  IN  IF src = Absent THEN S
      ELSE IF is_empty(src) THEN PushError(S, Error(EmptyMessage(local), line))
      ELSE IF starts_with(src, <<"#">>) THEN S
      ELSE LET S1 == add_dep(S, src, needs_stable_name, "Lazy", line,
                             Origin("attr", node, ns, local))
           IN  SetAttr(S1, node, ns, local, LastPlaceholder(S1))

\* the `for img in &mut srcset` loop of handle_srcset: acc holds S and res
RECURSIVE SrcsetLoop(_, _, _, _, _)
SrcsetLoop(acc, imgs, node, name, line) ==
  IF imgs = <<>> THEN acc
  ELSE
    LET img == Head(imgs)
        placeholder == finish_hex(hash_str(img.url))
        S1 == PushDep(acc.S,
                Dependency(img.url, FALSE, "Lazy", "None", "None", "None",
                           placeholder, line),
                Origin("srcset", node, name.ns, name.local))
        res1 == IF ~is_empty(acc.res) THEN acc.res \o <<",", " ">> ELSE acc.res
        res2 == res1 \o ImageSourceDisplay([img EXCEPT !.url = placeholder])
    IN  SrcsetLoop([S |-> S1, res |-> res2], Tail(imgs), node, name, line)

\* DependencyCollector::handle_srcset
handle_srcset(S, node, ns, local, line) ==
  LET srcset == get_attribute(S.D[node], ns, local)
  IN  IF srcset = Absent THEN S
      ELSE LET r == SrcsetLoop([S |-> S, res |-> <<>>], parse_srcset(srcset), node,
                               [ns |-> ns, local |-> local], line)
           IN  SetAttr(r.S, node, ns, local, r.res)

(***************************************************************************)
(* visit_element (dependencies.rs:195-591), one operator per match arm.    *)
(* opt holds scope_hoist and supports_esm.                                 *)
(***************************************************************************)
\* html link (dependencies.rs:197-253)
visit_link(S, node) ==
  LET d    == S.D[node]
      href == get_attribute(d, "", "href")
      rel  == get_attribute(d, "", "rel")
      ty   == get_attribute(d, "", "type")
      needs_stable_name ==
        \/ rel \in {str_canonical, str_manifest}
        \/ /\ rel = str_alternate
           /\ ty \in {str_application_rss_xml, str_application_atom_xml}
      priority == IF rel = str_stylesheet THEN "Parallel" ELSE "Lazy"
      href2 == IF rel = str_manifest /\ ~contains(href, ":")
               THEN str_webmanifest_colon \o href ELSE href
      dep == WithPlaceholder(Dependency(href2, needs_stable_name, priority, "None",
                                        "None", "None", <<>>, d.line))
      S1 == IF href = Absent THEN S
            ELSE PushDep(SetAttr(S, node, "", "href", dep.placeholder), dep,
                         Origin("attr", node, "", "href"))
  IN  IF href # Absent /\ is_empty(href)
      THEN Return(PushError(S, Error(EmptyMessage("href"), d.line)))
      ELSE handle_srcset(S1, node, "", "imagesrcset", d.line)

\* the output format of a script with a src (dependencies.rs:287-290), with
\* the condition of the inline script
script_src_output_format_and(source_type, opt, is_svg) ==
  IF source_type = "Module" /\ opt.scope_hoist /\ opt.supports_esm /\ ~is_svg
  THEN "Esmodule" ELSE "Global"

\* the output format of a script with a src (dependencies.rs:268, 287-290)
script_src_output_format(source_type, opt, is_svg) ==
  IF source_type = "Module" /\ (opt.scope_hoist \/ opt.supports_esm) /\ ~is_svg
  THEN "Esmodule" ELSE "Global"

\* the output format of an inline script (dependencies.rs:268, 359-360)
script_inline_output_format(source_type, opt, is_svg) ==
  IF source_type = "Module" /\ opt.scope_hoist /\ opt.supports_esm /\ ~is_svg
  THEN "Esmodule" ELSE "Global"

\* a clone that is appended after the original
link_script_copy_after(L, node, copy) ==
  IF L.parent[node] # None THEN append(L, L.parent[node], copy) ELSE L

\* node.insert_before(copy) (dependencies.rs:331)
link_script_copy(L, node, copy) == insert_before(L, node, copy)

\* the nomodule copy of a module script (dependencies.rs:312-332)
script_nomodule_copy(S, node, src_attr, src, source_type, bundle_behavior) ==
  LET d    == S.D[node]
      S1   == Alloc(S, d)
      copy == Len(S1.D)
      S2   == RemoveAttr(S1, copy, "", "type")
      S3   == SetAttr(S2, copy, "", "nomodule", <<>>)
      S4   == SetAttr(S3, copy, "", "defer", <<>>)
      dep  == WithPlaceholder(Dependency(src, FALSE, "Parallel", "Global", source_type,
                                         bundle_behavior, <<>>, d.line))
      S5   == SetAttr(S4, copy, src_attr.ns, src_attr.local, dep.placeholder)
      S6   == PushDep(S5, dep, Origin("attr", copy, src_attr.ns, src_attr.local))
  IN  [S6 EXCEPT !.L = link_script_copy(@, node, copy)]

\* a script with a non-empty src that gets defer in the SVG namespace too
visit_script_src_defer_svg(S, node, opt, is_svg, src_attr, src, source_type) ==
  LET d  == S.D[node]
      output_format == script_src_output_format(source_type, opt, is_svg)
      S1 == IF output_format # "Esmodule"
            THEN RemoveAttr(IF source_type = "Module"
                            THEN SetAttr(S, node, "", "defer", <<>>) ELSE S,
                            node, "", "type")
            ELSE S
      bundle_behavior ==
        IF source_type = "Script" \/ has_attribute(S1.D[node], "", "async")
        THEN "Isolated" ELSE "None"
      S2 == IF output_format = "Esmodule" /\ ~opt.supports_esm
            THEN script_nomodule_copy(S1, node, src_attr, src, source_type, bundle_behavior)
            ELSE S1
      dep == WithPlaceholder(Dependency(src, FALSE, "Parallel", output_format, source_type,
                                        bundle_behavior, <<>>, d.line))
  IN  PushDep(SetAttr(S2, node, src_attr.ns, src_attr.local, dep.placeholder), dep,
              Origin("attr", node, src_attr.ns, src_attr.local))

\* a script with a non-empty src (dependencies.rs:287-346)
visit_script_src(S, node, opt, is_svg, src_attr, src, source_type) ==
  LET d  == S.D[node]
      output_format == script_src_output_format(source_type, opt, is_svg)
      S1 == IF output_format # "Esmodule"
            THEN RemoveAttr(IF source_type = "Module" /\ ~is_svg
                            THEN SetAttr(S, node, "", "defer", <<>>) ELSE S,
                            node, "", "type")
            ELSE S
      bundle_behavior ==
        IF source_type = "Script" \/ has_attribute(S1.D[node], "", "async")
        THEN "Isolated" ELSE "None"
      S2 == IF output_format = "Esmodule" /\ ~opt.supports_esm
            THEN script_nomodule_copy(S1, node, src_attr, src, source_type, bundle_behavior)
            ELSE S1
      dep == WithPlaceholder(Dependency(src, FALSE, "Parallel", output_format, source_type,
                                        bundle_behavior, <<>>, d.line))
  IN  PushDep(SetAttr(S2, node, src_attr.ns, src_attr.local, dep.placeholder), dep,
              Origin("attr", node, src_attr.ns, src_attr.local))

\* the key of an inline script or style (dependencies.rs:365-378, 394-407):
\* S with data-parcel-key set when it was missing
WithParcelKey(S, node, code) ==
  IF has_attribute(S.D[node], "", "data-parcel-key") THEN S
  ELSE SetAttr(S, node, "", "data-parcel-key", finish_hex(hash_str(code)))

\* a script without src (dependencies.rs:348-389)
visit_script_inline(S, node, opt, is_svg, ty, source_type) ==
  LET d    == S.D[node]
      code == text_content(S.L, S.D, node)
      output_format == script_inline_output_format(source_type, opt, is_svg)
      S1   == IF output_format = "Esmodule" THEN S ELSE RemoveAttr(S, node, "", "type")
      S2   == WithParcelKey(S1, node, code)
      key  == get_attribute(S2.D[node], "", "data-parcel-key")
  IN  IF ty \in {str_application_json, str_text_html, str_importmap} THEN Return(S)
      ELSE PushAsset(S2,
             Asset(IF ty = Absent THEN str_application_javascript ELSE ty, code, key, FALSE,
                   output_format, source_type, "Inline", d.line),
             Origin("element", node, "", ""))

\* html script and svg script (dependencies.rs:254-391)
visit_script(S, node, opt) ==
  LET d      == S.D[node]
      is_svg == d.ns = "svg"
      src_attr ==
        IF is_svg
        THEN IF has_attribute(d, "xlink", "href") THEN [ns |-> "xlink", local |-> "href"]
             ELSE [ns |-> "", local |-> "href"]
        ELSE [ns |-> "", local |-> "src"]
      src == get_attribute(d, src_attr.ns, src_attr.local)
      ty  == get_attribute(d, "", "type")
      source_type == IF ty = str_module THEN "Module" ELSE "Script"
      S1  == IF ty = str_module THEN [S EXCEPT !.has_module_scripts = TRUE] ELSE S
  IN  IF src # Absent
      THEN IF is_empty(src)
           THEN Return(PushError(S1, Error(EmptyMessage("src"), d.line)))
           ELSE visit_script_src(S1, node, opt, is_svg, src_attr, src, source_type)
      ELSE visit_script_inline(S1, node, opt, is_svg, ty, source_type)

\* a style element whose asset always has the default MIME type
visit_style_keep_type(S, node) ==
  LET code == text_content(S.L, S.D, node)
      S1   == WithParcelKey(S, node, code)
  IN  PushAsset(S1,
        Asset(str_text_css, code, get_attribute(S1.D[node], "", "data-parcel-key"),
              FALSE, "None", "None", "Inline", S.D[node].line),
        Origin("element", node, "", ""))

\* html style and svg style (dependencies.rs:392-426)
visit_style(S, node) ==
  LET d    == S.D[node]
      code == text_content(S.L, S.D, node)
      S1   == WithParcelKey(S, node, code)
      key  == get_attribute(S1.D[node], "", "data-parcel-key")
      ty   == get_attribute(S1.D[node], "", "type")
      S2   == IF ty # Absent THEN RemoveAttr(S1, node, "", "type") ELSE S1
  IN  PushAsset(S2,
        Asset(IF ty # Absent THEN ty ELSE str_text_css, code, key, FALSE,
              "None", "None", "Inline", d.line),
        Origin("element", node, "", ""))

\* html meta (dependencies.rs:427-483)
visit_meta(S, node) ==
  LET d        == S.D[node]
      property == get_attribute(d, "", "property")
      name     == get_attribute(d, "", "name")
      itemprop == get_attribute(d, "", "itemprop")
      content  == get_attribute(d, "", "content")
      is_dep ==
        IF property # Absent THEN property \in MetaProperties
        ELSE IF name # Absent
        THEN IF name = str_twitter_image THEN TRUE
             ELSE IF name = str_msapplication_config
             THEN content # Absent /\ content # str_none
             ELSE name \in MetaTileNames
        ELSE IF itemprop # Absent THEN itemprop \in MetaItemprops
        ELSE FALSE
      needs_stable_name ==
        ~(property = Absent /\ name # Absent
          /\ name \notin {str_twitter_image, str_msapplication_config})
  IN  IF is_dep /\ content # Absent /\ ~is_empty(content)
      THEN LET S1 == add_dep(S, content, needs_stable_name, "Lazy", d.line,
                             Origin("attr", node, "", "content"))
           IN  SetAttr(S1, node, "", "content", LastPlaceholder(S1))
      ELSE S

\* a path is virtual when it has no '.' at all
IsVirtualPath_no_dot(href) ==
  LET path == IF contains(href, "#") THEN Take(href, find_char(href, "#")) ELSE href
  IN  ~contains(path, ".")

\* `path.rfind('.').unwrap_or(0) < 1` (dependencies.rs:511-512)
IsVirtualPath(href) ==
  LET path == IF contains(href, "#") THEN Take(href, find_char(href, "#")) ELSE href
      dot  == rfind_char(path, ".")
  IN  (IF dot = -1 THEN 0 ELSE dot) < 1

\* html a (dependencies.rs:503-519)
visit_html_a(S, node) ==
  LET d    == S.D[node]
      href == get_attribute(d, "", "href")
  IN  IF href = Absent THEN S
      ELSE IF is_empty(href) \/ starts_with(href, <<"#">>) THEN Return(S)
      ELSE IF IsVirtualPath(href) THEN Return(S)
      ELSE LET S1 == add_dep(S, href, TRUE, "Lazy", d.line, Origin("attr", node, "", "href"))
           IN  SetAttr(S1, node, "", "href", LastPlaceholder(S1))

SvgHrefElements ==
  {"use", "image", "feImage", "linearGradient", "radialGradient", "pattern",
   "mpath", "textPath"}

SvgXlinkOnlyElements ==
  {"altGlyph", "cursor", "filter", "font-face-uri", "glyphRef", "tref", "color-profile"}

\* the match on the element's expanded name (dependencies.rs:196-549)
visit_by_name(S, node, opt) ==
  LET d    == S.D[node]
      line == d.line
      name == <<d.ns, d.local>>
  IN  CASE name = <<"html", "link">> -> visit_link(S, node)
        [] name \in {<<"html", "script">>, <<"svg", "script">>} -> visit_script(S, node, opt)
        [] name \in {<<"html", "style">>, <<"svg", "style">>} -> visit_style(S, node)
        [] name = <<"html", "meta">> -> visit_meta(S, node)
        [] name \in {<<"html", "img">>, <<"html", "source">>} ->
             handle_srcset(handle_attr(S, node, "", "src", FALSE, line),
                           node, "", "srcset", line)
        [] name \in {<<"html", "audio">>, <<"html", "track">>, <<"html", "embed">>} ->
             handle_attr(S, node, "", "src", FALSE, line)
        [] name = <<"html", "video">> ->
             handle_attr(handle_attr(S, node, "", "src", FALSE, line),
                         node, "", "poster", FALSE, line)
        [] name = <<"html", "iframe">> -> handle_attr(S, node, "", "src", TRUE, line)
        [] name = <<"html", "object">> -> handle_attr(S, node, "", "data", FALSE, line)
        [] name = <<"html", "a">> -> visit_html_a(S, node)
        [] name = <<"svg", "a">> ->
             handle_attr(handle_attr(S, node, "", "href", TRUE, line),
                         node, "xlink", "href", TRUE, line)
        [] d.ns = "svg" /\ d.local \in SvgHrefElements ->
             handle_attr(handle_attr(S, node, "", "href", FALSE, line),
                         node, "xlink", "href", FALSE, line)
        [] d.ns = "svg" /\ d.local \in SvgXlinkOnlyElements ->
             handle_attr(S, node, "xlink", "href", FALSE, line)
        [] OTHER -> S

\* the style attribute (dependencies.rs:551-567)
visit_style_attr(S, node) ==
  LET style == get_attribute(S.D[node], "", "style")
      key   == finish_hex(hash_tendril(style))
  IN  IF style = Absent THEN S
      ELSE PushAsset(SetAttr(S, node, "", "style", key),
             Asset(str_text_css, style, key, TRUE, "None", "None", "Inline",
                   S.D[node].line),
             Origin("attr", node, "", "style"))

\* is_func_iri_attr (dependencies.rs:680-698)
is_func_iri_attr(a) ==
  \/ /\ a.ns = ""
     /\ a.local \in {"fill", "stroke", "clip-path", "color-profile", "cursor", "filter",
                     "marker", "marker-start", "marker-mid", "marker-end", "mask"}
  \/ a.local \in {"shape-inside", "shape-subtract", "mask-image"}

\* cssparser's expect_url on a value that starts with "url(": the url of
\* the first token, for the unquoted form url(x) and the quoted forms
\* url("x") and url('x') without escapes; [ok, url]
expect_url(value) ==
  LET body   == Drop(value, Len(str_url_paren))
      b1     == Drop(body, PrefixLen(body, WhitespaceChars))
      quoted == b1 # <<>> /\ b1[1] \in {"\"", "'"}
      q      == IF quoted THEN b1[1] ELSE ""
      inner  == IF quoted THEN Tail(b1) ELSE b1
      n      == IF quoted THEN PrefixLenNot(inner, {q})
                ELSE PrefixLenNot(inner, WhitespaceChars \cup {")", "\"", "'", "("})
      after  == IF quoted THEN Drop(inner, IF n < Len(inner) THEN n + 1 ELSE n)
                ELSE Drop(inner, n)
      a1     == Drop(after, PrefixLen(after, WhitespaceChars))
  IN  [ok |-> a1 = <<>> \/ a1[1] = ")", url |-> Take(inner, n)]

\* the loop over the attributes of an svg element (dependencies.rs:572-590)
RECURSIVE FuncIriLoop(_, _, _)
FuncIriLoop(S, node, i) ==
  IF i > Len(S.D[node].attrs) THEN S
  ELSE LET a == S.D[node].attrs[i]
           u == expect_url(a.value)
       IN  IF is_func_iri_attr(a) /\ starts_with(a.value, str_url_paren) /\ u.ok
           THEN LET S1 == add_dep(S, u.url, FALSE, "Lazy", S.D[node].line,
                                  Origin("attr", node, a.ns, a.local))
                IN  FuncIriLoop([S1 EXCEPT !.D[node].attrs[i].value = LastPlaceholder(S1)],
                                node, i + 1)
           ELSE FuncIriLoop(S, node, i + 1)

visit_func_iri(S, node) ==
  IF S.D[node].ns = "svg" THEN FuncIriLoop(S, node, 1) ELSE S

\* a visit_element in which no arm returns early
visit_element_no_return(S, node, opt) ==
  visit_func_iri(visit_style_attr([visit_by_name(S, node, opt) EXCEPT !.returned = FALSE],
                                  node), node)

\* DependencyCollector::visit_element
\* lines 551-590, which an arm that returned does not reach
visit_element_tail(S1, node) ==
  IF S1.returned THEN [S1 EXCEPT !.returned = FALSE]
  ELSE visit_func_iri(visit_style_attr(S1, node), node)

visit_element(S, node, opt) == visit_element_tail(visit_by_name(S, node, opt), node)

(***************************************************************************)
(* The inputs of collect: values of attributes and text of the documents   *)
(* the model draws.                                                        *)
(***************************************************************************)
in_a_js == <<"a", ".", "j", "s">>

in_b_css == <<"b", ".", "c", "s", "s">>

in_x_png == <<"x", ".", "p", "n", "g">>

in_y_png == <<"y", ".", "p", "n", "g">>

in_frag == <<"#", "t", "o", "p">>

in_page_html == <<"p", ".", "h", "t", "m", "l">>

in_page_html_frag == <<"p", ".", "h", "t", "m", "l", "#", "s">>

in_page == <<"p", "a", "g", "e">>

in_dotfile == <<".", "p">>

in_page_frag_dot == <<"p", "#", ".", "s">>

in_m_json == <<"m", ".", "j", "s", "o", "n">>

in_scheme_m == <<"x", ":", "m">>

in_feed_xml == <<"f", ".", "x", "m", "l">>

in_css == <<"c", ":", "d">>

in_code_1 == <<"x", "=">>

in_code_2 == <<"1", ";">>

in_key == <<"k", "1">>

in_text_less == <<"t", "e", "x", "t", "/", "l", "e", "s", "s">>

in_text_babel == <<"t", "e", "x", "t", "/", "b", "a", "b", "e", "l">>

in_srcset_density == <<"x", ".", "p", "n", "g", " ", "1", "x", ",", " ", "y", ".", "p", "n", "g", " ", "2", "x">>

in_srcset_width == <<"x", ".", "p", "n", "g", " ", "4", "8", "0", "w">>

in_srcset_bare == <<"x", ".", "p", "n", "g">>

in_srcset_bad == <<",", "x", ".", "p", "n", "g">>

in_url_x == <<"u", "r", "l", "(", "x", ".", "s", "v", "g", "#", "a", ")">>

in_url_quoted == <<"u", "r", "l", "(", "'", "y", ".", "p", "n", "g", "'", ")", " ", "z">>

in_url_bad == <<"u", "r", "l", "(", "x", " ", "y", ")">>

in_not_url == <<"r", "e", "d">>

in_x_svg == <<"x", ".", "s", "v", "g">>

in_pi_href == <<"h", "r", "e", "f", "=", "\"", "b", ".", "c", "s", "s", "\"">>

in_pi_href_type == <<"t", "y", "p", "e", "=", "\"", "t", "e", "x", "t", "/", "c", "s", "s", "\"", " ", "h", "r", "e", "f", "=", "'", "b", ".", "c", "s", "s", "'">>

in_pi_no_href == <<"t", "y", "p", "e", "=", "\"", "t", "e", "x", "t", "/", "c", "s", "s", "\"">>

in_description == <<"d", "e", "s", "c", "r", "i", "p", "t", "i", "o", "n">>

in_og_image == <<"o", "g", ":", "i", "m", "a", "g", "e">>

in_tile == <<"m", "s", "a", "p", "p", "l", "i", "c", "a", "t", "i", "o", "n", "-", "T", "i", "l", "e", "I", "m", "a", "g", "e">>

in_logo == <<"l", "o", "g", "o">>

in_other_pi == <<"p", "h", "p">>

(***************************************************************************)
(* The elements the documents are made of.  A template is an element (its  *)
(* namespace, local name and attributes as the parser leaves them) with    *)
(* the data of its children; a processing instruction is a template whose  *)
(* namespace is "?", with its target as local name and its contents as the *)
(* only attribute value.                                                   *)
(***************************************************************************)
LinkTemplates ==
  {[ns |-> "html", local |-> "link", attrs |-> <<Attr("", "rel", str_stylesheet), Attr("", "href", in_b_css)>>, kids |-> <<>>],
   [ns |-> "html", local |-> "link", attrs |-> <<Attr("", "href", in_b_css), Attr("", "style", in_css)>>, kids |-> <<>>],
   [ns |-> "html", local |-> "link", attrs |-> <<Attr("", "rel", str_manifest), Attr("", "href", in_m_json)>>, kids |-> <<>>],
   [ns |-> "html", local |-> "link", attrs |-> <<Attr("", "rel", str_manifest), Attr("", "href", in_scheme_m)>>, kids |-> <<>>],
   [ns |-> "html", local |-> "link", attrs |-> <<Attr("", "rel", str_canonical), Attr("", "href", in_page_html)>>, kids |-> <<>>],
   [ns |-> "html", local |-> "link", attrs |-> <<Attr("", "rel", str_alternate), Attr("", "type", str_application_rss_xml), Attr("", "href", in_feed_xml)>>, kids |-> <<>>],
   [ns |-> "html", local |-> "link", attrs |-> <<Attr("", "rel", str_alternate), Attr("", "type", str_text_html), Attr("", "href", in_feed_xml)>>, kids |-> <<>>],
   [ns |-> "html", local |-> "link", attrs |-> <<Attr("", "rel", str_stylesheet), Attr("", "href", <<>>), Attr("", "style", in_css)>>, kids |-> <<>>],
   [ns |-> "html", local |-> "link", attrs |-> <<Attr("", "imagesrcset", in_srcset_density)>>, kids |-> <<>>],
   [ns |-> "html", local |-> "link", attrs |-> <<Attr("", "href", in_x_png), Attr("", "imagesrcset", in_srcset_bare)>>, kids |-> <<>>]}

ScriptTemplates ==
  {[ns |-> "html", local |-> "script", attrs |-> <<Attr("", "src", in_a_js)>>, kids |-> <<>>],
   [ns |-> "html", local |-> "script", attrs |-> <<Attr("", "src", in_a_js), Attr("", "type", in_text_babel)>>, kids |-> <<>>],
   [ns |-> "html", local |-> "script", attrs |-> <<Attr("", "type", str_module), Attr("", "src", in_a_js)>>, kids |-> <<>>],
   [ns |-> "html", local |-> "script", attrs |-> <<Attr("", "type", str_module), Attr("", "src", in_a_js), Attr("", "async", <<>>)>>, kids |-> <<>>],
   [ns |-> "html", local |-> "script", attrs |-> <<Attr("", "type", str_module), Attr("", "src", in_a_js), Attr("", "style", in_css)>>, kids |-> <<>>],
   [ns |-> "html", local |-> "script", attrs |-> <<Attr("", "src", <<>>)>>, kids |-> <<>>],
   [ns |-> "html", local |-> "script", attrs |-> <<Attr("", "type", str_module), Attr("", "src", <<>>), Attr("", "style", in_css)>>, kids |-> <<>>],
   [ns |-> "html", local |-> "script", attrs |-> <<>>, kids |-> <<TextData(in_code_1, 0)>>],
   [ns |-> "html", local |-> "script", attrs |-> <<Attr("", "type", str_module)>>, kids |-> <<TextData(in_code_1, 0), CommentData(in_code_1, 0), TextData(in_code_2, 0)>>],
   [ns |-> "html", local |-> "script", attrs |-> <<Attr("", "type", str_module), Attr("", "style", in_css)>>, kids |-> <<TextData(in_code_1, 0)>>],
   [ns |-> "html", local |-> "script", attrs |-> <<Attr("", "type", str_application_json), Attr("", "style", in_css)>>, kids |-> <<TextData(in_code_1, 0)>>],
   [ns |-> "html", local |-> "script", attrs |-> <<Attr("", "type", str_importmap)>>, kids |-> <<TextData(in_code_1, 0)>>],
   [ns |-> "html", local |-> "script", attrs |-> <<Attr("", "data-parcel-key", in_key), Attr("", "type", in_text_babel)>>, kids |-> <<TextData(in_code_1, 0), TextData(in_code_2, 0)>>],
   [ns |-> "svg", local |-> "script", attrs |-> <<Attr("", "type", str_module), Attr("", "href", in_a_js)>>, kids |-> <<>>],
   [ns |-> "svg", local |-> "script", attrs |-> <<Attr("", "href", in_x_png), Attr("xlink", "href", in_a_js)>>, kids |-> <<>>],
   [ns |-> "svg", local |-> "script", attrs |-> <<Attr("", "type", str_module)>>, kids |-> <<TextData(in_code_1, 0)>>],
   [ns |-> "svg", local |-> "script", attrs |-> <<Attr("", "href", <<>>), Attr("", "style", in_css)>>, kids |-> <<>>],
   [ns |-> "svg", local |-> "script", attrs |-> <<Attr("", "src", in_a_js)>>, kids |-> <<TextData(in_code_1, 0)>>]}

StyleTemplates ==
  {[ns |-> "html", local |-> "style", attrs |-> <<>>, kids |-> <<TextData(in_code_1, 0)>>],
   [ns |-> "html", local |-> "style", attrs |-> <<Attr("", "type", in_text_less)>>, kids |-> <<TextData(in_code_1, 0), CommentData(in_code_1, 0), TextData(in_code_2, 0)>>],
   [ns |-> "html", local |-> "style", attrs |-> <<Attr("", "data-parcel-key", in_key)>>, kids |-> <<TextData(in_code_1, 0)>>],
   [ns |-> "html", local |-> "style", attrs |-> <<Attr("", "type", <<>>), Attr("", "style", in_css)>>, kids |-> <<TextData(in_code_1, 0)>>],
   [ns |-> "html", local |-> "style", attrs |-> <<>>, kids |-> <<>>],
   [ns |-> "svg", local |-> "style", attrs |-> <<Attr("", "type", str_text_css)>>, kids |-> <<TextData(in_code_2, 0)>>]}

MediaTemplates ==
  {[ns |-> "html", local |-> "img", attrs |-> <<Attr("", "src", in_x_png)>>, kids |-> <<>>],
   [ns |-> "html", local |-> "img", attrs |-> <<Attr("", "src", <<>>)>>, kids |-> <<>>],
   [ns |-> "html", local |-> "source", attrs |-> <<Attr("", "src", in_x_png)>>, kids |-> <<>>],
   [ns |-> "html", local |-> "source", attrs |-> <<Attr("", "src", <<>>)>>, kids |-> <<>>],
   [ns |-> "html", local |-> "audio", attrs |-> <<Attr("", "src", in_x_png)>>, kids |-> <<>>],
   [ns |-> "html", local |-> "audio", attrs |-> <<Attr("", "src", <<>>)>>, kids |-> <<>>],
   [ns |-> "html", local |-> "track", attrs |-> <<Attr("", "src", in_x_png)>>, kids |-> <<>>],
   [ns |-> "html", local |-> "track", attrs |-> <<Attr("", "src", <<>>)>>, kids |-> <<>>],
   [ns |-> "html", local |-> "embed", attrs |-> <<Attr("", "src", in_x_png)>>, kids |-> <<>>],
   [ns |-> "html", local |-> "embed", attrs |-> <<Attr("", "src", <<>>)>>, kids |-> <<>>],
   [ns |-> "html", local |-> "iframe", attrs |-> <<Attr("", "src", in_x_png)>>, kids |-> <<>>],
   [ns |-> "html", local |-> "iframe", attrs |-> <<Attr("", "src", <<>>)>>, kids |-> <<>>],
   [ns |-> "html", local |-> "img", attrs |-> <<Attr("", "src", in_x_png), Attr("", "srcset", in_srcset_bare)>>, kids |-> <<>>],
   [ns |-> "html", local |-> "img", attrs |-> <<Attr("", "src", in_frag), Attr("", "srcset", in_srcset_density)>>, kids |-> <<>>],
   [ns |-> "html", local |-> "img", attrs |-> <<Attr("", "srcset", in_srcset_width), Attr("", "style", in_css)>>, kids |-> <<>>],
   [ns |-> "html", local |-> "img", attrs |-> <<Attr("", "src", <<>>), Attr("", "srcset", in_srcset_bad), Attr("", "style", in_css)>>, kids |-> <<>>],
   [ns |-> "html", local |-> "source", attrs |-> <<Attr("", "srcset", in_srcset_width)>>, kids |-> <<>>],
   [ns |-> "html", local |-> "video", attrs |-> <<Attr("", "src", in_x_png), Attr("", "poster", in_y_png)>>, kids |-> <<>>],
   [ns |-> "html", local |-> "video", attrs |-> <<Attr("", "src", <<>>), Attr("", "poster", in_y_png)>>, kids |-> <<>>],
   [ns |-> "html", local |-> "video", attrs |-> <<Attr("", "src", <<>>), Attr("", "poster", <<>>)>>, kids |-> <<>>],
   [ns |-> "html", local |-> "object", attrs |-> <<Attr("", "data", in_x_png)>>, kids |-> <<>>],
   [ns |-> "html", local |-> "object", attrs |-> <<Attr("", "data", <<>>)>>, kids |-> <<>>]}

AnchorTemplates ==
  {[ns |-> "html", local |-> "a", attrs |-> <<Attr("", "href", in_page_html)>>, kids |-> <<>>],
   [ns |-> "html", local |-> "a", attrs |-> <<Attr("", "href", in_page_html_frag), Attr("", "style", in_css)>>, kids |-> <<>>],
   [ns |-> "html", local |-> "a", attrs |-> <<Attr("", "href", <<>>)>>, kids |-> <<>>],
   [ns |-> "html", local |-> "a", attrs |-> <<Attr("", "href", <<>>), Attr("", "style", in_css)>>, kids |-> <<>>],
   [ns |-> "html", local |-> "a", attrs |-> <<Attr("", "href", in_frag), Attr("", "style", in_css)>>, kids |-> <<>>],
   [ns |-> "html", local |-> "a", attrs |-> <<Attr("", "href", in_page), Attr("", "style", in_css)>>, kids |-> <<>>],
   [ns |-> "html", local |-> "a", attrs |-> <<Attr("", "href", in_dotfile)>>, kids |-> <<>>],
   [ns |-> "html", local |-> "a", attrs |-> <<Attr("", "href", in_page_frag_dot)>>, kids |-> <<>>],
   [ns |-> "html", local |-> "a", attrs |-> <<Attr("", "style", in_css)>>, kids |-> <<>>]}

SvgTemplates ==
  {[ns |-> "svg", local |-> "a", attrs |-> <<Attr("", "href", in_page_html)>>, kids |-> <<>>],
   [ns |-> "svg", local |-> "a", attrs |-> <<Attr("xlink", "href", in_page)>>, kids |-> <<>>],
   [ns |-> "svg", local |-> "a", attrs |-> <<Attr("", "href", <<>>), Attr("", "style", in_css)>>, kids |-> <<>>],
   [ns |-> "svg", local |-> "a", attrs |-> <<Attr("xlink", "href", <<>>), Attr("", "href", in_x_svg)>>, kids |-> <<>>],
   [ns |-> "svg", local |-> "use", attrs |-> <<Attr("", "href", in_x_svg)>>, kids |-> <<>>],
   [ns |-> "svg", local |-> "use", attrs |-> <<Attr("xlink", "href", in_x_svg), Attr("", "href", in_frag)>>, kids |-> <<>>],
   [ns |-> "svg", local |-> "use", attrs |-> <<Attr("", "href", <<>>)>>, kids |-> <<>>],
   [ns |-> "svg", local |-> "image", attrs |-> <<Attr("xlink", "href", <<>>), Attr("", "href", <<>>)>>, kids |-> <<>>],
   [ns |-> "svg", local |-> "altGlyph", attrs |-> <<Attr("xlink", "href", in_x_svg), Attr("", "href", in_y_png)>>, kids |-> <<>>],
   [ns |-> "svg", local |-> "filter", attrs |-> <<Attr("xlink", "href", <<>>), Attr("", "filter", in_url_x)>>, kids |-> <<>>],
   [ns |-> "svg", local |-> "rect", attrs |-> <<Attr("", "fill", in_url_x), Attr("", "stroke", in_url_quoted), Attr("", "style", in_css)>>, kids |-> <<>>],
   [ns |-> "svg", local |-> "rect", attrs |-> <<Attr("", "fill", in_not_url), Attr("", "mask", in_url_bad), Attr("", "mask-image", in_url_quoted)>>, kids |-> <<>>],
   [ns |-> "html", local |-> "rect", attrs |-> <<Attr("", "fill", in_url_x)>>, kids |-> <<>>]}

MetaTemplates ==
  {[ns |-> "html", local |-> "meta", attrs |-> <<Attr("", "property", in_og_image), Attr("", "content", in_x_png)>>, kids |-> <<>>],
   [ns |-> "html", local |-> "meta", attrs |-> <<Attr("", "property", in_og_image), Attr("", "content", <<>>)>>, kids |-> <<>>],
   [ns |-> "html", local |-> "meta", attrs |-> <<Attr("", "property", in_description), Attr("", "name", str_twitter_image), Attr("", "content", in_x_png)>>, kids |-> <<>>],
   [ns |-> "html", local |-> "meta", attrs |-> <<Attr("", "name", str_twitter_image), Attr("", "content", in_x_png)>>, kids |-> <<>>],
   [ns |-> "html", local |-> "meta", attrs |-> <<Attr("", "name", str_msapplication_config), Attr("", "content", str_none)>>, kids |-> <<>>],
   [ns |-> "html", local |-> "meta", attrs |-> <<Attr("", "name", str_msapplication_config), Attr("", "content", in_x_png)>>, kids |-> <<>>],
   [ns |-> "html", local |-> "meta", attrs |-> <<Attr("", "name", in_tile), Attr("", "content", in_x_png)>>, kids |-> <<>>],
   [ns |-> "html", local |-> "meta", attrs |-> <<Attr("", "name", in_description), Attr("", "content", in_x_png)>>, kids |-> <<>>],
   [ns |-> "html", local |-> "meta", attrs |-> <<Attr("", "itemprop", in_logo), Attr("", "content", in_x_png), Attr("", "style", in_css)>>, kids |-> <<>>]}

OtherTemplates ==
  {[ns |-> "html", local |-> "div", attrs |-> <<>>, kids |-> <<>>],
   [ns |-> "html", local |-> "div", attrs |-> <<Attr("", "style", in_css)>>, kids |-> <<TextData(in_code_1, 0)>>]}

PITemplates ==
  {[ns |-> "?", local |-> "xml-stylesheet", attrs |-> <<Attr("", "", c)>>, kids |-> <<>>] :
     c \in {in_pi_href, in_pi_href_type, in_pi_no_href}}
   \cup {[ns |-> "?", local |-> "php", attrs |-> <<Attr("", "", in_pi_href)>>, kids |-> <<>>]}

Templates ==
  LinkTemplates \cup ScriptTemplates \cup StyleTemplates \cup MediaTemplates
    \cup AnchorTemplates \cup SvgTemplates \cup MetaTemplates \cup OtherTemplates
    \cup PITemplates

\* the elements that stand before and after the element under study
ContextTemplates ==
  {[ns |-> "html", local |-> "img", attrs |-> <<Attr("", "src", in_x_png)>>, kids |-> <<>>],
   [ns |-> "html", local |-> "img", attrs |-> <<Attr("", "src", <<>>)>>, kids |-> <<>>],
   [ns |-> "html", local |-> "script", attrs |-> <<Attr("", "type", str_module), Attr("", "src", in_a_js)>>, kids |-> <<>>],
   [ns |-> "html", local |-> "div", attrs |-> <<Attr("", "style", in_css)>>, kids |-> <<>>]}

(***************************************************************************)
(* The xml-stylesheet processing instruction (dependencies.rs:700-760).    *)
(* parse_xml_stylesheet hands "<xml-stylesheet {contents} />" to the XML   *)
(* tokenizer and takes the attributes of the tag; the model reads the      *)
(* pseudo-attributes name="value" and name='value' (no character           *)
(* references) and fails on anything else.                                 *)
(***************************************************************************)
RECURSIVE ParsePseudoAttrs(_, _)
ParsePseudoAttrs(s, attrs) ==
  LET s1    == Drop(s, PrefixLen(s, WhitespaceChars))
      nlen  == PrefixLenNot(s1, WhitespaceChars \cup {"=", "\"", "'"})
      name  == Take(s1, nlen)
      s2    == Drop(s1, nlen)
      quote == IF Len(s2) >= 2 THEN s2[2] ELSE ""
      s3    == Drop(s2, 2)
      vlen  == PrefixLenNot(s3, {quote})
  IN  IF s1 = <<>> THEN [ok |-> TRUE, attrs |-> attrs]
      ELSE IF nlen = 0 \/ Len(s2) < 2 \/ s2[1] # "=" \/ quote \notin {"\"", "'"}
              \/ vlen = Len(s3)
      THEN [ok |-> FALSE, attrs |-> <<>>]
      ELSE ParsePseudoAttrs(Drop(s3, vlen + 1),
                            Append(attrs, [name |-> name, value |-> Take(s3, vlen)]))

parse_xml_stylesheet(contents) == ParsePseudoAttrs(contents, <<>>)

EscapeXmlChar(c) ==
  CASE c = "&"  -> <<"&", "a", "m", "p", ";">>
    [] c = "'"  -> <<"&", "a", "p", "o", "s", ";">>
    [] c = "\"" -> <<"&", "q", "u", "o", "t", ";">>
    [] OTHER    -> <<c>>

serialize_xml_stylesheet(attrs) ==
  Concat([i \in 1..Len(attrs) |->
           (IF i = 1 THEN <<>> ELSE <<" ">>)
             \o attrs[i].name \o <<"=", "\"">>
             \o Concat([j \in 1..Len(attrs[i].value) |-> EscapeXmlChar(attrs[i].value[j])])
             \o <<"\"">>])

str_href == <<"h", "r", "e", "f">>

\* the `for attr in &mut attrs` loop of the visitor (dependencies.rs:111-116)
RECURSIVE StylesheetLoop(_, _, _, _)
StylesheetLoop(acc, attrs, i, node) ==
  IF i > Len(attrs) THEN acc
  ELSE IF attrs[i].name = str_href
  THEN LET S1 == add_dep(acc.S, attrs[i].value, FALSE, "Parallel", acc.S.D[node].line,
                         Origin("pi", node, "", "href"))
       IN  StylesheetLoop([S |-> S1,
                           attrs |-> Append(acc.attrs, [attrs[i] EXCEPT !.value = LastPlaceholder(S1)])],
                          attrs, i + 1, node)
  ELSE StylesheetLoop([acc EXCEPT !.attrs = Append(@, attrs[i])], attrs, i + 1, node)

\* the visitor's ProcessingInstruction arm (dependencies.rs:107-121)
visit_processing_instruction(S, node) ==
  LET d == S.D[node]
      parsed == parse_xml_stylesheet(d.contents)
      r == StylesheetLoop([S |-> S, attrs |-> <<>>], parsed.attrs, 1, node)
  IN  IF d.target = "xml-stylesheet" /\ parsed.ok
      THEN [r.S EXCEPT !.D[node].contents = serialize_xml_stylesheet(r.attrs)]
      ELSE S

\* a visitor that does nothing once an error has been recorded
visitor_stop_on_error(S, node, opt) ==
  CASE S.errors # <<>> -> S
    [] S.D[node].kind = "Element" -> visit_element(S, node, opt)
    [] S.D[node].kind = "ProcessingInstruction" -> visit_processing_instruction(S, node)
    [] OTHER -> S

\* the closure collect_dependencies gives to walk (dependencies.rs:103-123)
visitor(S, node, opt) ==
  CASE S.D[node].kind = "Element" -> visit_element(S, node, opt)
    [] S.D[node].kind = "ProcessingInstruction" -> visit_processing_instruction(S, node)
    [] OTHER -> S

\* the dependencies of the assets (dependencies.rs:125-136)
RECURSIVE AssetDeps(_, _)
AssetDeps(S, i) ==
  IF i > Len(S.assets) THEN S
  ELSE LET a == S.assets[i]
       IN  AssetDeps(PushDep(S, Dependency(a.key, FALSE, "Sync", a.output_format,
                                           a.source_type, "None", a.key, a.line),
                             S.asset_origin[i]),
                     i + 1)

\* the HMR script (dependencies.rs:138-165)
inject_hmr(S, root, opt) ==
  LET body == find(S.L, S.D, root, "html", "body")
      S1 == add_dep(S, str_hmr_js, FALSE, "Parallel", 0, Origin("hmr", None, "", ""))
      S2 == PushAsset(S1, Asset(str_application_javascript, <<>>, str_hmr_js, FALSE,
                                "None", "None", "None", 0),
                      Origin("hmr", None, "", ""))
      S3 == Alloc(S2, ElementData("html", "script",
                                  <<Attr("", "src", LastPlaceholder(S1))>>, 0))
  IN  IF opt.hmr /\ ~S.has_module_scripts /\ body # None
      THEN [S3 EXCEPT !.L = append(@, body, Len(S3.D))]
      ELSE S

(***************************************************************************)
(* The documents: the tree the parser builds for a Document with a root    *)
(* element (html with a body, or svg with a g) that holds the templates.   *)
(* Processing instructions stand in the XML documents only: the HTML       *)
(* parser makes comments of them.                                          *)
(***************************************************************************)
\* elements that stand beside the element under study in one document
MaxContext == 1

TemplateData(t, line) ==
  IF t.ns = "?" THEN PIData(t.local, t.attrs[1].value, line)
  ELSE ElementData(t.ns, t.local, t.attrs, line)

\* the parser's append of a new node with data d under parent p
AppendNew(T, p, d) ==
  LET n == Len(T.D) + 1
  IN  [D |-> Append(T.D, [d EXCEPT !.line = n]),
       L |-> append([parent |-> Append(T.L.parent, None),
                     next_sibling |-> Append(T.L.next_sibling, None),
                     previous_sibling |-> Append(T.L.previous_sibling, None),
                     first_child |-> Append(T.L.first_child, None),
                     last_child |-> Append(T.L.last_child, None)], p, n)]

RECURSIVE AppendKids(_, _, _)
AppendKids(T, p, kids) ==
  IF kids = <<>> THEN T ELSE AppendKids(AppendNew(T, p, Head(kids)), p, Tail(kids))

RECURSIVE AppendTemplates(_, _, _)
AppendTemplates(T, p, ts) ==
  IF ts = <<>> THEN T
  ELSE LET T1 == AppendNew(T, p, TemplateData(Head(ts), 0))
       IN  AppendTemplates(AppendKids(T1, Len(T1.D), Head(ts).kids), p, Tail(ts))

DocumentTree(shape, ts) ==
  LET T0 == [D |-> <<DocumentData>>, L |-> EmptyLinks({Document})]
      T1 == AppendNew(T0, Document,
                      ElementData(shape, IF shape = "html" THEN "html" ELSE "svg", <<>>, 0))
      T2 == AppendNew(T1, Len(T1.D),
                      ElementData(shape, IF shape = "html" THEN "body" ELSE "g", <<>>, 0))
  IN  AppendTemplates(T2, Len(T2.D), ts)

RECURSIVE SeqsUpTo(_, _)
SeqsUpTo(X, k) ==
  IF k = 0 THEN {<<>>}
  ELSE SeqsUpTo(X, k - 1) \cup {Append(q, x) : q \in {r \in SeqsUpTo(X, k - 1) : Len(r) = k - 1}, x \in X}

Documents ==
  {DocumentTree(x[1], c[1] \o <<x[2]>> \o c[2]) :
     x \in {y \in {"html", "svg"} \X Templates : y[2].ns = "?" => y[1] = "svg"},
     c \in {y \in SeqsUpTo(ContextTemplates, MaxContext)
                   \X SeqsUpTo(ContextTemplates, MaxContext) :
               Len(y[1]) + Len(y[2]) <= MaxContext}}

(***************************************************************************)
(* SpecArena: append, prepend, insert_before and detach called in any      *)
(* order with any nodes of one arena as arguments.                         *)
(***************************************************************************)
\* The caller's side of the contract of append, prepend and insert_before:
\* the node that is moved is not the node it is moved under (or before), nor
\* one of that node's ancestors.  The code does not check this.
MovesUnderItself(L, S, self, new) == new = self \/ new \in Ancestors(L, S, self)

IdleWalk == cur = None /\ stack = <<>> /\ visited = <<>>

IdleCollector ==
  /\ deps = <<>> /\ assets = <<>> /\ errors = <<>>
  /\ has_module_scripts = FALSE
  /\ opts = [scope_hoist |-> FALSE, supports_esm |-> FALSE, hmr |-> FALSE]
  /\ origins = [deps |-> <<>>, assets |-> <<>>]
  /\ given = [L |-> <<>>, D |-> <<>>]
  /\ out = <<>>
  /\ result = [kind |-> "none"]

InitArena ==
  /\ SetLinksInit(EmptyLinks(ArenaNodes))
  /\ data = [n \in ArenaNodes |-> DocumentData]
  /\ allocated = MaxNodes
  /\ calls = 0
  /\ misused = FALSE
  /\ IdleWalk
  /\ IdleCollector
  /\ pc = "arena"
  /\ IdleCore
  /\ IdleSerializer

ArenaDetach ==
  \E n \in ArenaNodes :
    /\ pc = "arena"
    /\ calls < MaxCalls
    /\ calls' = calls + 1
    /\ SetLinks(detach(Links, n))
    /\ UNCHANGED <<misused, data, allocated, walkVars, collectorVars, pc>>
    /\ UNCHANGED <<coreVars, serializerVars>>

ArenaAppend ==
  \E p \in ArenaNodes, c \in ArenaNodes :
    /\ pc = "arena"
    /\ calls < MaxCalls
    /\ calls' = calls + 1
    /\ SetLinks(append(Links, p, c))
    /\ misused' = (misused \/ MovesUnderItself(Links, ArenaNodes, p, c))
    /\ UNCHANGED <<data, allocated, walkVars, collectorVars, pc>>
    /\ UNCHANGED <<coreVars, serializerVars>>

ArenaPrepend ==
  \E p \in ArenaNodes, c \in ArenaNodes :
    /\ pc = "arena"
    /\ calls < MaxCalls
    /\ calls' = calls + 1
    /\ SetLinks(prepend(Links, p, c))
    /\ misused' = (misused \/ MovesUnderItself(Links, ArenaNodes, p, c))
    /\ UNCHANGED <<data, allocated, walkVars, collectorVars, pc>>
    /\ UNCHANGED <<coreVars, serializerVars>>

ArenaInsertBefore ==
  \E s \in ArenaNodes, c \in ArenaNodes :
    /\ pc = "arena"
    /\ calls < MaxCalls
    /\ calls' = calls + 1
    /\ SetLinks(insert_before(Links, s, c))
    /\ misused' = (misused \/ MovesUnderItself(Links, ArenaNodes, s, c))
    /\ UNCHANGED <<data, allocated, walkVars, collectorVars, pc>>
    /\ UNCHANGED <<coreVars, serializerVars>>

NextArena == ArenaDetach \/ ArenaAppend \/ ArenaPrepend \/ ArenaInsertBefore

SpecArena == InitArena /\ [][NextArena]_vars

(***************************************************************************)
(* Node::walk (arena.rs:171-178).  walk is recursive; every active call    *)
(* holds one local, `node`, the child it will recurse into next.  `stack`  *)
(* holds these locals, innermost last, and `cur` is the node whose call    *)
(* has just begun.  The code assigns node = n.next_sibling before it calls *)
(* n.walk(visit), so the local on the stack is already the next sibling    *)
(* when n is visited.                                                      *)
(***************************************************************************)
\* the `while let Some(n) = node` loops of the active calls, run until the
\* next call of walk begins (cur) or the outermost call returns (cur = None)
\* a walk that reads n.next_sibling after n.walk(visit) returned: the local
\* holds -n while the call on n is active
RECURSIVE WalkLoop_read_after(_, _)
WalkLoop_read_after(L, stk) ==
  IF stk = <<>> THEN [cur |-> None, stack |-> <<>>]
  ELSE LET top == stk[Len(stk)]
           n == IF top < 0 THEN L.next_sibling[-top] ELSE top
       IN  IF n # None
           THEN [cur |-> n, stack |-> [stk EXCEPT ![Len(stk)] = -n]]
           ELSE WalkLoop_read_after(L, SubSeq(stk, 1, Len(stk) - 1))

RECURSIVE WalkLoop(_, _)
WalkLoop(L, stk) ==
  IF stk = <<>> THEN [cur |-> None, stack |-> <<>>]
  ELSE LET n == stk[Len(stk)]
       IN  IF n # None
           THEN [cur |-> n,
                 stack |-> [stk EXCEPT ![Len(stk)] = L.next_sibling[n]]]
           ELSE WalkLoop(L, SubSeq(stk, 1, Len(stk) - 1))

\* a walk that starts at the last child
WalkAfterVisit_from_last(L, stk, n) == WalkLoop(L, Append(stk, L.last_child[n]))

\* what walk(n) does after visit(n) returned, in the links L the visitor left:
\* `let mut node = self.first_child.get()` and then the loop
WalkAfterVisit(L, stk, n) == WalkLoop(L, Append(stk, L.first_child[n]))

(***************************************************************************)
(* SpecWalk: a tree is built under the Document by calls that keep to the  *)
(* contract, and then walked by a visitor that records the node and leaves *)
(* the tree alone.                                                         *)
(***************************************************************************)
InitWalk ==
  /\ SetLinksInit(EmptyLinks(TreeNodes))
  /\ data = [n \in TreeNodes |-> DocumentData]
  /\ allocated = MaxTreeNodes
  /\ calls = 0
  /\ misused = FALSE
  /\ IdleWalk
  /\ IdleCollector
  /\ pc = "build"
  /\ IdleCore
  /\ IdleSerializer

BuildFrame == UNCHANGED <<coreVars, serializerVars, data, allocated, calls, misused, walkVars, collectorVars, pc>>

BuildDetach ==
  \E n \in TreeNodes \ {Document} :
    /\ pc = "build"
    /\ SetLinks(detach(Links, n))
    /\ BuildFrame

BuildAppend ==
  \E p \in TreeNodes, c \in TreeNodes \ {Document} :
    /\ pc = "build"
    /\ ~MovesUnderItself(Links, TreeNodes, p, c)
    /\ SetLinks(append(Links, p, c))
    /\ BuildFrame

BuildPrepend ==
  \E p \in TreeNodes, c \in TreeNodes \ {Document} :
    /\ pc = "build"
    /\ ~MovesUnderItself(Links, TreeNodes, p, c)
    /\ SetLinks(prepend(Links, p, c))
    /\ BuildFrame

BuildInsertBefore ==
  \E s \in TreeNodes \ {Document}, c \in TreeNodes \ {Document} :
    /\ pc = "build"
    /\ ~MovesUnderItself(Links, TreeNodes, s, c)
    /\ SetLinks(insert_before(Links, s, c))
    /\ BuildFrame

StartWalk ==
  /\ pc = "build"
  /\ pc' = "walk"
  /\ cur' = Document
  /\ stack' = <<>>
  /\ UNCHANGED <<linkVars, data, allocated, calls, misused, visited, collectorVars>>
  /\ UNCHANGED <<coreVars, serializerVars>>

\* one call of walk: the visitor, then the loops up to the next call
WalkVisit ==
  /\ pc = "walk"
  /\ cur # None
  /\ visited' = Append(visited, cur)
  /\ LET w == WalkAfterVisit(Links, stack, cur)
     IN  cur' = w.cur /\ stack' = w.stack
  /\ UNCHANGED <<linkVars, data, allocated, calls, misused, collectorVars, pc>>
  /\ UNCHANGED <<coreVars, serializerVars>>

WalkReturn ==
  /\ pc = "walk"
  /\ cur = None
  /\ pc' = "walked"
  /\ UNCHANGED <<linkVars, data, allocated, calls, misused, walkVars, collectorVars>>
  /\ UNCHANGED <<coreVars, serializerVars>>

NextWalk ==
  \/ BuildDetach \/ BuildAppend \/ BuildPrepend \/ BuildInsertBefore
  \/ StartWalk \/ WalkVisit \/ WalkReturn

SpecWalk == InitWalk /\ [][NextWalk]_vars

(***************************************************************************)
(* SpecCollect: collect_dependencies (dependencies.rs:94-168) on one of    *)
(* the documents: the walk, one visit at a time, then the dependencies of  *)
(* the assets and the HMR script.                                          *)
(***************************************************************************)
CollectorState ==
  [L |-> Links, D |-> data, deps |-> deps, assets |-> assets, errors |-> errors,
   has_module_scripts |-> has_module_scripts,
   dep_origin |-> origins.deps, asset_origin |-> origins.assets, returned |-> FALSE]

SetCollectorState(S) ==
  /\ SetLinks(S.L)
  /\ data' = S.D
  /\ allocated' = Len(S.D)
  /\ deps' = S.deps
  /\ assets' = S.assets
  /\ errors' = S.errors
  /\ has_module_scripts' = S.has_module_scripts
  /\ origins' = [deps |-> S.dep_origin, assets |-> S.asset_origin]

InitCollect ==
  \E doc \in Documents, sh \in BOOLEAN, esm \in BOOLEAN, hmr \in BOOLEAN :
    /\ SetLinksInit(doc.L)
    /\ data = doc.D
    /\ allocated = Len(doc.D)
    /\ deps = <<>> /\ assets = <<>> /\ errors = <<>>
    /\ has_module_scripts = FALSE
    /\ opts = [scope_hoist |-> sh, supports_esm |-> esm, hmr |-> hmr]
    /\ origins = [deps |-> <<>>, assets |-> <<>>]
    /\ given = doc
    /\ out = <<>>
    /\ result = [kind |-> "none"]
    /\ calls = 0
    /\ misused = FALSE
    /\ cur = Document
    /\ stack = <<>>
    /\ visited = <<>>
    /\ pc = "collect"
    /\ IdleCore
    /\ IdleSerializer

\* one call of walk: the visitor on cur, then the loops up to the next call
CollectVisit ==
  /\ pc = "collect"
  /\ cur # None
  /\ \E S \in {visitor(CollectorState, cur, opts)} :
       /\ SetCollectorState(S)
       /\ \E w \in {WalkAfterVisit(S.L, stack, cur)} :
            /\ cur' = w.cur
            /\ stack' = w.stack
  /\ visited' = Append(visited, cur)
  /\ UNCHANGED <<opts, given, calls, misused, ioVars, pc>>
  /\ UNCHANGED <<coreVars, serializerVars>>

\* after the walk: the assets' dependencies and the HMR script
CollectFinish ==
  /\ pc = "collect"
  /\ cur = None
  /\ \E S \in {inject_hmr(AssetDeps(CollectorState, 1), Document, opts)} :
       SetCollectorState(S)
  /\ pc' = "collected"
  /\ UNCHANGED <<opts, given, calls, misused, ioVars, walkVars>>
  /\ UNCHANGED <<coreVars, serializerVars>>

NextCollect == CollectVisit \/ CollectFinish

SpecCollect == InitCollect /\ [][NextCollect]_vars


\* the calls that keep to the contract leave a well-formed tree to walk
WalkTreeShape == TreeShape(Links, TreeNodes)

\* the position of node n in the visit order (0 when it was not visited)
VisitIndex(n) ==
  IF \E i \in 1..Len(visited) : visited[i] = n
  THEN CHOOSE i \in 1..Len(visited) : visited[i] = n
  ELSE 0

Subtree(L, S, n) == {n} \cup Descendants(L, S, n)

\* C2: a walk whose visitor does not change the tree calls the visitor
\* exactly once on every node reachable from the root and on no other node,
\* on every node before each of its descendants, and on the subtrees of
\* siblings in sibling order.
C2_WalkIsPreOrder ==
  pc = "walked" =>
    LET L == Links
        reach == Subtree(L, TreeNodes, Document)
    IN  /\ Range(visited) = reach
        /\ Len(visited) = Cardinality(reach)
        /\ \A a \in reach : \A d \in Descendants(L, TreeNodes, a) :
              VisitIndex(a) < VisitIndex(d)
        /\ \A a \in reach :
              LET cl == ChildList(L, TreeNodes, a)
              IN  \A i, j \in 1..Len(cl) :
                    i < j =>
                      \A x \in Subtree(L, TreeNodes, cl[i]) :
                        \A y \in Subtree(L, TreeNodes, cl[j]) :
                          VisitIndex(x) < VisitIndex(y)

\* C2 witness: a finished walk of a tree in which the Document has two
\* children, the first of which has a child, whose labels are not in
\* document order.
C2_Witness ==
  /\ pc = "walked"
  /\ Len(visited) = MaxTreeNodes
  /\ \E a, b, c \in TreeNodes :
       /\ ChildList(Links, TreeNodes, Document) = <<a, b>>
       /\ ChildList(Links, TreeNodes, a) = <<c>>
       /\ b < c /\ c < a

\* C1 (as claimed): after any sequence of append, prepend, insert_before and
\* detach calls, with any node as any argument, the tree-shape invariants hold.
C1_TreeShapeAnyArguments == pc = "arena" => StatedShape(Links, ArenaNodes)

\* C1 (amended): after any sequence of append, prepend, insert_before and
\* detach calls in none of which the moved node is the target node itself or
\* one of its ancestors, the tree-shape invariants hold, and the child lists
\* agree with the parent links.
C1_TreeShapeKept == (pc = "arena" /\ ~misused) => TreeShape(Links, ArenaNodes)

\* C1 witness: calls were made, none moved a node under itself, and they
\* built a node with two children, one of which has a child of its own.
C1_Witness ==
  /\ pc = "arena" /\ ~misused /\ calls = MaxCalls
  /\ \E a, b \in ArenaNodes :
       /\ first_child[a] # None /\ last_child[a] # first_child[a]
       /\ parent[b] = None /\ first_child[b] = a

(***************************************************************************)
(* collect_dependencies: what the lists it returns say about the tree it   *)
(* leaves.  The properties read the state after the call, pc = "collected".*)
(* In the documents of the model the line of an element is its index in    *)
(* document order, so the line names the element.                          *)
(***************************************************************************)
Collected == pc = "collected"

DepIndices == 1..Len(deps)

AssetIndices == 1..Len(assets)

ErrorIndices == 1..Len(errors)

GivenElements == {n \in 1..Len(given.D) : given.D[n].kind = "Element"}

GivenAttr(n, ns, local) == get_attribute(given.D[n], ns, local)

\* C3: every dependency found in an attribute or in an xml-stylesheet href
\* has its placeholder at that place of the tree after collect: as the value
\* of the attribute, as the URL of one candidate of the srcset, as the value
\* of an href of the processing instruction.
C3_TreeHoldsPlaceholder ==
  Collected =>
    \A i \in DepIndices :
      LET o == origins.deps[i]
          p == deps[i].placeholder
      IN  CASE o.kind = "attr" -> get_attribute(data[o.node], o.ns, o.local) = p
            [] o.kind = "srcset" ->
                 LET c == parse_srcset(get_attribute(data[o.node], o.ns, o.local))
                 IN  \E k \in 1..Len(c) : c[k].url = p
            [] o.kind = "pi" ->
                 LET a == parse_xml_stylesheet(data[o.node].contents).attrs
                 IN  \E k \in 1..Len(a) : a[k].name = str_href /\ a[k].value = p
            [] OTHER -> TRUE

C3_Witness ==
  /\ Collected
  /\ \E i, j \in DepIndices :
       /\ origins.deps[i].kind = "attr" /\ origins.deps[j].kind = "srcset"
       /\ origins.deps[i].node = origins.deps[j].node
       /\ deps[i].placeholder # deps[i].href

SixFields(d) ==
  <<d.href, d.needs_stable_name, d.priority, d.output_format, d.source_type,
    d.bundle_behavior>>

\* C4 as stated: two dependencies that agree on href, needs-stable-name,
\* priority, output-format, source-type and bundle-behavior have the same
\* placeholder, whatever attribute they came from.
C4_PlaceholderOfSixFields ==
  \A i, j \in DepIndices :
    SixFields(deps[i]) = SixFields(deps[j]) => deps[i].placeholder = deps[j].placeholder

\* C4: two dependencies that agree on the six fields and are both srcset
\* candidates, or both not, have the same placeholder, whatever their lines
\* and whatever attribute they came from.
C4_PlaceholderOfSixFieldsAndKind ==
  \A i, j \in DepIndices :
    /\ SixFields(deps[i]) = SixFields(deps[j])
    /\ (origins.deps[i].kind = "srcset") = (origins.deps[j].kind = "srcset")
    => deps[i].placeholder = deps[j].placeholder

C4_Witness ==
  \E i, j \in DepIndices :
    /\ SixFields(deps[i]) = SixFields(deps[j])
    /\ deps[i].line # deps[j].line
    /\ origins.deps[i].kind = "attr" /\ origins.deps[j].kind = "attr"
    /\ <<given.D[origins.deps[i].node].local, origins.deps[i].local>>
         # <<given.D[origins.deps[j].node].local, origins.deps[j].local>>
    /\ deps[i].placeholder = deps[j].placeholder

\* the src of a script (dependencies.rs:257-265)
ScriptSrcAttr(d) ==
  IF d.ns = "svg"
  THEN IF has_attribute(d, "xlink", "href") THEN <<"xlink", "href">> ELSE <<"", "href">>
  ELSE <<"", "src">>

\* the href and src attributes the dispatch on the element's name inspects,
\* without the href of an HTML a
HrefSrcAttrs(d) ==
  CASE d.ns = "html" /\ d.local = "link" -> {<<"", "href">>}
    [] d.ns \in {"html", "svg"} /\ d.local = "script" -> {ScriptSrcAttr(d)}
    [] d.ns = "html"
       /\ d.local \in {"img", "source", "audio", "track", "embed", "video", "iframe"} ->
         {<<"", "src">>}
    [] d.ns = "svg" /\ d.local \in SvgHrefElements \cup {"a"} ->
         {<<"", "href">>, <<"xlink", "href">>}
    [] d.ns = "svg" /\ d.local \in SvgXlinkOnlyElements -> {<<"xlink", "href">>}
    [] OTHER -> {}

\* the same with the href of an HTML a
HrefSrcAttrsWithA(d) ==
  IF d.ns = "html" /\ d.local = "a" THEN {<<"", "href">>} ELSE HrefSrcAttrs(d)

EmptyOf(n, attrs) == {a \in attrs : GivenAttr(n, a[1], a[2]) = <<>>}

\* the errors about an empty href or src that carry the line of n
EmptyErrorsAt(n) ==
  {k \in ErrorIndices :
     /\ errors[k].line = given.D[n].line
     /\ errors[k].message \in {EmptyMessage("href"), EmptyMessage("src")}}

\* C5 as stated: every href and src of the dispatch table, the href of an
\* HTML a among them, that is present and empty has one error with the line
\* of its element.
C5_EveryEmptyHrefSrcIsAnError ==
  Collected =>
    \A n \in GivenElements :
      LET e == EmptyOf(n, HrefSrcAttrsWithA(given.D[n]))
      IN  e # {} => Cardinality(EmptyErrorsAt(n)) = Cardinality(e)

\* C5: every href and src of the dispatch table other than the href of an
\* HTML a that is present and empty has one error with the line of its
\* element.
C5_EmptyHrefSrcIsAnError ==
  Collected =>
    \A n \in GivenElements :
      LET e == EmptyOf(n, HrefSrcAttrs(given.D[n]))
      IN  e # {} => Cardinality(EmptyErrorsAt(n)) = Cardinality(e)

C5_Witness ==
  /\ Collected
  /\ \E n \in GivenElements :
       /\ Cardinality(EmptyOf(n, HrefSrcAttrs(given.D[n]))) = 2
       /\ Cardinality(EmptyErrorsAt(n)) = 2

\* the attributes whose empty value handle_attr and the link and script arms
\* record as an error
EmptyCheckedAttrs(d) ==
  HrefSrcAttrs(d)
    \cup (IF d.ns = "html" /\ d.local = "video" THEN {<<"", "poster">>} ELSE {})
    \cup (IF d.ns = "html" /\ d.local = "object" THEN {<<"", "data">>} ELSE {})

AtLine(seq, line) == SelectSeq(seq, LAMBDA r : r.line = line)

NotSync(seq) == SelectSeq(seq, LAMBDA r : r.priority # "Sync")

\* what the visitor yields for node m of the given tree when nothing has
\* been collected before
VisitAlone(m) ==
  visitor([L |-> given.L, D |-> given.D, deps |-> <<>>, assets |-> <<>>, errors |-> <<>>,
           has_module_scripts |-> FALSE, dep_origin |-> <<>>, asset_origin |-> <<>>,
           returned |-> FALSE], m, opts)

\* C6: an attribute whose empty value is recorded as an error yields no
\* dependency and keeps its value; the errors stand in document order; and
\* every node later in document order than a recorded error yields the
\* dependencies, assets and errors it yields when visited alone.
C6_ErrorDoesNotStopCollect ==
  Collected =>
    /\ \A n \in GivenElements :
         \A a \in EmptyOf(n, EmptyCheckedAttrs(given.D[n])) :
           /\ \E k \in ErrorIndices : errors[k].line = given.D[n].line
           /\ \A i \in DepIndices :
                ~(origins.deps[i].node = n /\ origins.deps[i].ns = a[1]
                  /\ origins.deps[i].local = a[2])
           /\ get_attribute(data[n], a[1], a[2]) = <<>>
    /\ \A j, k \in ErrorIndices : j < k => errors[j].line <= errors[k].line
    /\ \A k \in ErrorIndices :
         \A m \in 1..Len(given.D) :
           given.D[m].line > errors[k].line =>
             /\ AtLine(NotSync(deps), given.D[m].line) = VisitAlone(m).deps
             /\ AtLine(assets, given.D[m].line) = VisitAlone(m).assets
             /\ AtLine(errors, given.D[m].line) = VisitAlone(m).errors

C6_Witness ==
  /\ Collected
  /\ \E k \in ErrorIndices, i \in DepIndices, n \in GivenElements :
       /\ given.D[n].line = errors[k].line
       /\ EmptyOf(n, EmptyCheckedAttrs(given.D[n])) # {}
       /\ deps[i].line > errors[k].line
       /\ deps[i].priority # "Sync"

\* C7 as stated: every element with a style attribute, whatever its name and
\* its other attributes, yields exactly one asset with is_attr set, type
\* text/css, bundle behavior Inline and the value of the attribute as
\* content, and the attribute holds the key of that asset after collect.
C7_EveryStyleAttributeIsAnAsset ==
  Collected =>
    \A n \in GivenElements :
      has_attribute(given.D[n], "", "style") =>
        LET found == {k \in AssetIndices : origins.assets[k] = Origin("attr", n, "", "style")}
        IN  /\ Cardinality(found) = 1
            /\ \A k \in found :
                 /\ assets[k].is_attr
                 /\ assets[k].ty = str_text_css
                 /\ assets[k].bundle_behavior = "Inline"
                 /\ assets[k].content = GivenAttr(n, "", "style")
                 /\ get_attribute(data[n], "", "style") = assets[k].key

\* an HTML script with type=module and a non-empty src
IsModuleScriptWithSrc(n) ==
  /\ given.D[n].kind = "Element"
  /\ given.D[n].ns = "html" /\ given.D[n].local = "script"
  /\ GivenAttr(n, "", "type") = str_module
  /\ has_attribute(given.D[n], "", "src")
  /\ ~is_empty(GivenAttr(n, "", "src"))

\* the dependencies the walk pushed with the line of n
WalkDepsAt(n) ==
  {i \in DepIndices : deps[i].line = given.D[n].line /\ deps[i].priority # "Sync"}

\* C8: with scope_hoist and without supports_esm, an HTML script with
\* type=module and a non-empty src has exactly two dependencies, both
\* Parallel: first a Global one of a clone, then an Esmodule one of the
\* script.  The clone is a new node, the previous sibling of the script,
\* without type, with nomodule and defer and its own placeholder as src, and
\* the walk does not visit it.
C8_NomoduleClone ==
  (Collected /\ opts.scope_hoist /\ ~opts.supports_esm) =>
    \A n \in 1..Len(given.D) :
      IsModuleScriptWithSrc(n) =>
        LET c == previous_sibling[n]
        IN  /\ Cardinality(WalkDepsAt(n)) = 2
            /\ \E i \in WalkDepsAt(n) :
                 /\ WalkDepsAt(n) = {i, i + 1}
                 /\ deps[i].priority = "Parallel" /\ deps[i].output_format = "Global"
                 /\ deps[i + 1].priority = "Parallel"
                 /\ deps[i + 1].output_format = "Esmodule"
                 /\ origins.deps[i].node = c
                 /\ origins.deps[i + 1].node = n
                 /\ get_attribute(data[n], "", "src") = deps[i + 1].placeholder
                 /\ c > Len(given.D)
                 /\ next_sibling[c] = n /\ parent[c] = parent[n]
                 /\ data[c].local = "script"
                 /\ ~has_attribute(data[c], "", "type")
                 /\ has_attribute(data[c], "", "nomodule")
                 /\ has_attribute(data[c], "", "defer")
                 /\ get_attribute(data[c], "", "src") = deps[i].placeholder
                 /\ \A k \in 1..Len(visited) : visited[k] # c

C8_Witness ==
  /\ Collected /\ opts.scope_hoist /\ ~opts.supports_esm
  /\ \E n, m \in 1..Len(given.D) :
       /\ n < m
       /\ IsModuleScriptWithSrc(n) /\ IsModuleScriptWithSrc(m)
       /\ previous_sibling[m] > Len(given.D)
       /\ previous_sibling[previous_sibling[m]] = n

\* the type of a script: that of the given element, and for a node collect
\* made the one it has
ScriptType(n) ==
  IF n <= Len(given.D) THEN GivenAttr(n, "", "type") ELSE get_attribute(data[n], "", "type")

IsScript(n) == data[n].kind = "Element" /\ data[n].local = "script" /\ data[n].ns \in {"html", "svg"}

ScriptSrcDeps ==
  {i \in DepIndices :
     /\ origins.deps[i].kind = "attr"
     /\ IsScript(origins.deps[i].node)
     /\ deps[i].source_type # "None"}

ScriptAssets ==
  {k \in AssetIndices : origins.assets[k].kind = "element" /\ IsScript(origins.assets[k].node)}

EsmoduleIff(format, n, cond) ==
  /\ format \in {"Esmodule", "Global"}
  /\ format = "Esmodule" <=> (ScriptType(n) = str_module /\ cond /\ data[n].ns # "svg")

\* C9 as stated: the output format of the dependency of a script with a src
\* and of the asset of a script without one is Esmodule if and only if the
\* type is module, scope_hoist or supports_esm is set and the element is not
\* in the SVG namespace, and Global otherwise.
C9_EsmoduleIffModuleAndEither ==
  /\ \A i \in ScriptSrcDeps :
       EsmoduleIff(deps[i].output_format, origins.deps[i].node,
                   opts.scope_hoist \/ opts.supports_esm)
  /\ \A k \in ScriptAssets :
       EsmoduleIff(assets[k].output_format, origins.assets[k].node,
                   opts.scope_hoist \/ opts.supports_esm)

\* C9: the output format of the dependency of a script with a src is
\* Esmodule if and only if the type is module, scope_hoist or supports_esm
\* is set and the element is not in the SVG namespace; that of the asset of
\* a script without src if and only if the type is module, scope_hoist and
\* supports_esm are both set and the element is not in the SVG namespace;
\* Global otherwise.
C9_EsmoduleIff ==
  /\ \A i \in ScriptSrcDeps :
       EsmoduleIff(deps[i].output_format, origins.deps[i].node,
                   opts.scope_hoist \/ opts.supports_esm)
  /\ \A k \in ScriptAssets :
       EsmoduleIff(assets[k].output_format, origins.assets[k].node,
                   opts.scope_hoist /\ opts.supports_esm)

C9_Witness ==
  /\ Collected
  /\ opts.scope_hoist # opts.supports_esm
  /\ \E i \in ScriptSrcDeps : deps[i].output_format = "Esmodule"
  /\ \E k \in ScriptAssets :
       /\ assets[k].output_format = "Global"
       /\ ScriptType(origins.assets[k].node) = str_module
       /\ data[origins.assets[k].node].ns = "html"

IsStyle(n) ==
  given.D[n].kind = "Element" /\ given.D[n].local = "style" /\ given.D[n].ns \in {"html", "svg"}

\* C10: a style element yields exactly one asset with is_attr unset: its
\* bundle behavior is Inline, its content the text content of the element,
\* its type text/css or the value of the type attribute, which the element
\* has lost, its key the hash of the content or the value of the
\* data-parcel-key the element had, and the element has data-parcel-key with
\* the key as value.
C10_StyleElementAsset ==
  Collected =>
    \A n \in 1..Len(given.D) :
      IsStyle(n) =>
        LET found == {k \in AssetIndices : origins.assets[k].node = n /\ ~assets[k].is_attr}
            code  == text_content(given.L, given.D, n)
        IN  /\ Cardinality(found) = 1
            /\ \A k \in found :
                 /\ assets[k].bundle_behavior = "Inline"
                 /\ assets[k].content = code
                 /\ assets[k].ty = IF has_attribute(given.D[n], "", "type")
                                   THEN GivenAttr(n, "", "type") ELSE str_text_css
                 /\ ~has_attribute(data[n], "", "type")
                 /\ assets[k].key = IF has_attribute(given.D[n], "", "data-parcel-key")
                                    THEN GivenAttr(n, "", "data-parcel-key")
                                    ELSE finish_hex(hash_str(code))
                 /\ get_attribute(data[n], "", "data-parcel-key") = assets[k].key

C10_Witness ==
  /\ Collected
  /\ \E n \in 1..Len(given.D) :
       /\ IsStyle(n)
       /\ GivenAttr(n, "", "type") = in_text_less
       /\ \E k \in AssetIndices :
            /\ origins.assets[k].node = n
            /\ assets[k].ty = in_text_less
            /\ assets[k].content = in_code_1 \o in_code_2

GivenModuleScript ==
  \E n \in GivenElements :
    /\ given.D[n].local = "script" /\ given.D[n].ns \in {"html", "svg"}
    /\ GivenAttr(n, "", "type") = str_module

HmrDeps == {i \in DepIndices : deps[i].href = str_hmr_js}

HmrAssets == {k \in AssetIndices : assets[k].key = str_hmr_js}

\* the nodes collect made for the HMR runtime: the nomodule copies have the
\* line of their original, the HMR script has line 0
HmrScripts == {n \in (Len(given.D) + 1)..Len(data) : data[n].line = 0}

\* C11 as stated: with inject_hmr and no module script, whether the tree has
\* a body or not, collect returns a Parallel dependency hmr.js and a
\* zero-byte asset with key hmr.js, and a body, when there is one, has as last
\* child a script with the placeholder as src; without inject_hmr or with a
\* module script there is no such dependency, asset or script.
C11_HmrWhetherOrNotBody ==
  Collected =>
    LET body == find(given.L, given.D, Document, "html", "body")
    IN  IF opts.hmr /\ ~GivenModuleScript
        THEN /\ \E i \in HmrDeps : deps[i].priority = "Parallel"
             /\ \E k \in HmrAssets : assets[k].content = <<>>
             /\ body # None =>
                  \E i \in HmrDeps :
                    /\ last_child[body] \in HmrScripts
                    /\ data[last_child[body]].local = "script"
                    /\ get_attribute(data[last_child[body]], "", "src") = deps[i].placeholder
        ELSE HmrDeps = {} /\ HmrAssets = {} /\ HmrScripts = {}


(***************************************************************************)
(* The minifying serializer (serialize.rs).  The writer is the byte        *)
(* sequence it holds and the room it has: a Vec<u8> has room for any       *)
(* number of bytes (room = -1), another io::Write may fail once its room   *)
(* is used up.  A failed write_all returns Err and every caller returns    *)
(* it with `?`: nothing is written after the failure.                      *)
(***************************************************************************)
\* U+00A0, one character of a string
chr_nbsp == "NBSP"

\* U+0060, one character of a string
chr_backtick == "BACKTICK"

\* NodeData::Doctype (arena.rs:59-63); contents holds its name
DoctypeData(name, line) ==
  [kind |-> "Doctype", ns |-> "", local |-> "", attrs |-> <<>>,
   contents |-> name, target |-> <<>>, line |-> line]

\* LocalName::as_bytes for the names of the documents
NameBytes ==
  ("html" :> <<"h","t","m","l">>) @@ ("head" :> <<"h","e","a","d">>)
  @@ ("body" :> <<"b","o","d","y">>) @@ ("script" :> <<"s","c","r","i","p","t">>)
  @@ ("style" :> <<"s","t","y","l","e">>) @@ ("meta" :> <<"m","e","t","a">>)
  @@ ("link" :> <<"l","i","n","k">>) @@ ("p" :> <<"p">>) @@ ("a" :> <<"a">>)
  @@ ("div" :> <<"d","i","v">>) @@ ("br" :> <<"b","r">>) @@ ("ul" :> <<"u","l">>)
  @@ ("li" :> <<"l","i">>) @@ ("svg" :> <<"s","v","g">>) @@ ("g" :> <<"g">>)
  @@ ("canvas" :> <<"c","a","n","v","a","s">>) @@ ("img" :> <<"i","m","g">>)
  @@ ("id" :> <<"i","d">>) @@ ("class" :> <<"c","l","a","s","s">>)
  @@ ("rel" :> <<"r","e","l">>) @@ ("type" :> <<"t","y","p","e">>)
  @@ ("src" :> <<"s","r","c">>) @@ ("href" :> <<"h","r","e","f">>)
  @@ ("width" :> <<"w","i","d","t","h">>) @@ ("lang" :> <<"l","a","n","g">>)
  @@ ("nomodule" :> <<"n","o","m","o","d","u","l","e">>)
  @@ ("charset" :> <<"c", "h", "a", "r", "s", "e", "t">>) @@ ("media" :> <<"m", "e", "d", "i", "a">>)
  @@ ("target" :> <<"t", "a", "r", "g", "e", "t">>) @@ ("crossorigin" :> <<"c", "r", "o", "s", "s", "o", "r", "i", "g", "i", "n">>)
  @@ ("xml-stylesheet" :> <<"x","m","l","-","s","t","y","l","e","s","h","e","e","t">>)
  @@ ("data-parcel-key" :> <<"d","a","t","a","-","p","a","r","c","e","l","-","k","e","y">>) @@ ("rect" :> <<"r","e","c","t">>)

as_bytes(name) == NameBytes[name]

Writer(room) ==
  [out |-> <<>>, room |-> room, failed |-> FALSE, quoted |-> FALSE,
   stack |-> <<[html_name |-> "", ignore_children |-> FALSE]>>]

\* io::Write::write_all: Err once the writer has no room for all of buf
write_all(w, buf) ==
  IF w.failed THEN w
  ELSE IF w.room < 0 \/ Len(w.out) + Len(buf) <= w.room
  THEN [w EXCEPT !.out = @ \o buf]
  ELSE [w EXCEPT !.out = @ \o Take(buf, w.room - Len(@)), !.failed = TRUE]

EscapedChar(c, attr_mode) ==
  CASE c = "&" -> <<"&","a","m","p",";">>
    [] c = chr_nbsp -> <<"&","n","b","s","p",";">>
    [] c = "\"" /\ attr_mode -> <<"&","q","u","o","t",";">>
    [] c = "<" /\ ~attr_mode -> <<"&","l","t",";">>
    [] c = ">" /\ ~attr_mode -> <<"&","g","t",";">>
    [] OTHER -> <<c>>

\* write_escaped writes the characters one after the other; the writer
\* takes the same bytes as from one write of them all
write_escaped(w, text, attr_mode) ==
  write_all(w, Concat([i \in 1..Len(text) |-> EscapedChar(text[i], attr_mode)]))

\* the ElemInfo of the innermost open element
SerParent(w) == w.stack[Len(w.stack)]

Push(w, html_name, ignore_children) ==
  [w EXCEPT !.stack = Append(@, [html_name |-> html_name, ignore_children |-> ignore_children])]

VoidElements ==
  {"area", "base", "basefont", "bgsound", "br", "col", "embed", "frame", "hr", "img",
   "input", "keygen", "link", "meta", "param", "source", "track", "wbr"}

RawTextElements == {"style", "script", "xmp", "iframe", "noembed", "noframes", "plaintext"}

\* the helpers of Node that the optional-tag rules use
IsElementNamed(D, n, names) ==
  n # None /\ D[n].kind = "Element" /\ D[n].ns = "html" /\ D[n].local \in names

IsComment(D, n) == n # None /\ D[n].kind = "Comment"

starts_with_whitespace(D, n) ==
  n # None /\ D[n].kind = "Text" /\ D[n].contents # <<>> /\ is_ascii_whitespace(D[n].contents[1])

first_child_is_comment(L, D, n) == IsComment(D, L.first_child[n])

first_child_is(L, D, n, name) == IsElementNamed(D, L.first_child[n], {name})

next_sibling_is(L, D, n, name) == IsElementNamed(D, L.next_sibling[n], {name})

next_sibling_is_comment(L, D, n) == IsComment(D, L.next_sibling[n])

next_sibling_is_comment_or_whitespace(L, D, n) ==
  IsComment(D, L.next_sibling[n]) \/ starts_with_whitespace(D, L.next_sibling[n])

is_last_child(L, n) == L.next_sibling[n] = None

PClosers ==
  {"address", "article", "aside", "blockquote", "details", "dialog", "div", "dl",
   "fieldset", "figcaption", "figure", "footer", "form", "h1", "h2", "h3", "h4", "h5",
   "h6", "header", "hgroup", "hr", "main", "menu", "nav", "ol", "p", "pre", "search",
   "section", "table", "ul"}

can_omit_end_tag(L, D, node) ==
  LET name == D[node].local
      is(x) == next_sibling_is(L, D, node, x)
      last == is_last_child(L, node)
  IN  IF D[node].ns # "html" THEN FALSE
      ELSE CASE name = "html" -> ~next_sibling_is_comment(L, D, node)
             [] name = "head" -> ~next_sibling_is_comment_or_whitespace(L, D, node)
             [] name = "body" -> ~next_sibling_is_comment(L, D, node)
             [] name = "li" -> last \/ is("li")
             [] name = "dt" -> is("dt") \/ is("dd")
             [] name = "dd" -> last \/ is("dd") \/ is("dt")
             [] name = "p" ->
                  IF L.next_sibling[node] = None
                  THEN /\ L.parent[node] # None
                       /\ D[L.parent[node]].kind = "Element"
                       /\ ~IsElementNamed(D, L.parent[node],
                             {"a", "audio", "del", "ins", "map", "noscript", "video"})
                  ELSE IsElementNamed(D, L.next_sibling[node], PClosers)
             [] name = "rt" -> last \/ is("rt") \/ is("rp")
             [] name = "rp" -> last \/ is("rt") \/ is("rp")
             [] name = "optgroup" -> last \/ is("optgroup") \/ is("hr")
             [] name = "option" -> last \/ is("option") \/ is("optgroup") \/ is("hr")
             [] name = "colgroup" -> ~next_sibling_is_comment_or_whitespace(L, D, node)
             [] name = "caption" -> ~next_sibling_is_comment_or_whitespace(L, D, node)
             [] name = "thead" -> is("tbody") \/ is("tfoot")
             [] name = "tbody" -> last \/ is("tbody") \/ is("tfoot")
             [] name = "tfoot" -> last
             [] name = "tr" -> last \/ is("tr")
             [] name = "td" -> last \/ is("td") \/ is("th")
             [] name = "th" -> last \/ is("td") \/ is("th")
             [] OTHER -> FALSE

\* the previous sibling is one of these elements and its end tag is omitted
PrevOmitted(L, D, node, names) ==
  /\ IsElementNamed(D, L.previous_sibling[node], names)
  /\ can_omit_end_tag(L, D, L.previous_sibling[node])

HeadOnlyElements == {"meta", "noscript", "link", "script", "style", "template"}

can_omit_start_tag(L, D, node) ==
  LET name == D[node].local
      first == L.first_child[node]
  IN  IF D[node].ns # "html" THEN FALSE
      ELSE CASE name = "html" -> ~first_child_is_comment(L, D, node)
             [] name = "head" -> first = None \/ D[first].kind = "Element"
             [] name = "body" ->
                  \/ first = None
                  \/ /\ ~(IsComment(D, first) \/ starts_with_whitespace(D, first))
                     /\ ~IsElementNamed(D, node, HeadOnlyElements)
             [] name = "colgroup" ->
                  first_child_is(L, D, node, "col") /\ ~PrevOmitted(L, D, node, {"colgroup"})
             [] name = "tbody" ->
                  /\ first_child_is(L, D, node, "tr")
                  /\ ~PrevOmitted(L, D, node, {"tbody", "thead", "tfoot"})
             [] OTHER -> FALSE

AttrPrefix(attr, elem_local) ==
  CASE attr.ns = "" -> <<>>
    [] attr.ns = "xml" -> <<"x","m","l",":">>
    [] attr.ns = "xmlns" -> IF elem_local # "xmlns" THEN <<"x","m","l","n","s",":">> ELSE <<>>
    [] attr.ns = "xlink" -> <<"x","l","i","n","k",":">>
    [] OTHER -> <<"u","n","k","n","o","w","n","_","n","a","m","e","s","p","a","c","e",":">>

NeedsQuotes(value) ==
  \E i \in 1..Len(value) :
    is_ascii_whitespace(value[i]) \/ value[i] \in {"\"", "'", "=", "<", ">", chr_backtick, chr_nbsp}

\* one turn of the loop over the attributes (serialize.rs:184-218)
write_attr(w, attr, elem_local) ==
  IF attr.value = <<>>
  THEN write_all(w, <<" ">> \o AttrPrefix(attr, elem_local) \o as_bytes(attr.local))
  ELSE IF ~NeedsQuotes(attr.value)
  THEN [write_all(w, <<" ">> \o AttrPrefix(attr, elem_local) \o as_bytes(attr.local)
                       \o <<"=">> \o attr.value)
          EXCEPT !.quoted = FALSE]
  ELSE [write_all(write_escaped(write_all(w, <<" ">> \o AttrPrefix(attr, elem_local)
                                               \o as_bytes(attr.local) \o <<"=", "\"">>),
                                attr.value, TRUE),
                  <<"\"">>)
          EXCEPT !.quoted = TRUE]

RECURSIVE write_attrs(_, _, _)
write_attrs(w, attrs, elem_local) ==
  IF attrs = <<>> THEN w
  ELSE CHOOSE r \in {write_attrs(w1, Tail(attrs), elem_local) :
                       w1 \in {write_attr(w, Head(attrs), elem_local)}} : TRUE

\* the end of the start tag and the push (serialize.rs:220-262)
close_start_tag(w, self_closing, html_name, ignore_children) ==
  Push(write_all(w, IF self_closing
                    THEN (IF ~w.quoted THEN <<" ","/",">">> ELSE <<"/",">">>)
                    ELSE <<">">>),
       html_name, self_closing \/ ignore_children)

html_name_of(d) == IF d.ns = "html" THEN d.local ELSE ""

\* start_elem that pushes no ElemInfo for an element whose start tag is omitted
start_elem_omitted_unpushed(w, L, D, node) ==
  IF SerParent(w).ignore_children THEN Push(w, html_name_of(D[node]), TRUE)
  ELSE IF D[node].attrs = <<>> /\ can_omit_start_tag(L, D, node)
  THEN w
  ELSE close_start_tag(
         write_attrs([write_all(w, <<"<">> \o as_bytes(D[node].local)) EXCEPT !.quoted = FALSE],
                     D[node].attrs, D[node].local),
         D[node].ns \in {"svg", "mathml"} /\ L.first_child[node] = None,
         html_name_of(D[node]),
         D[node].ns = "html" /\ D[node].local \in VoidElements)

start_elem(w, L, D, node) ==
  IF SerParent(w).ignore_children THEN Push(w, html_name_of(D[node]), TRUE)
  ELSE IF D[node].attrs = <<>> /\ can_omit_start_tag(L, D, node)
  THEN Push(w, html_name_of(D[node]), FALSE)
  ELSE close_start_tag(
         write_attrs([write_all(w, <<"<">> \o as_bytes(D[node].local)) EXCEPT !.quoted = FALSE],
                     D[node].attrs, D[node].local),
         D[node].ns \in {"svg", "mathml"} /\ L.first_child[node] = None,
         html_name_of(D[node]),
         D[node].ns = "html" /\ D[node].local \in VoidElements)

Pop(w) == [w EXCEPT !.stack = SubSeq(@, 1, Len(@) - 1)]

end_elem(w, L, D, node) ==
  IF SerParent(w).ignore_children THEN Pop(w)
  ELSE IF can_omit_end_tag(L, D, node) THEN Pop(w)
  ELSE write_all(Pop(w), <<"<","/">> \o as_bytes(D[node].local) \o <<">">>)

scripting_enabled == TRUE

write_text(w, text) ==
  IF \/ SerParent(w).html_name \in RawTextElements
     \/ SerParent(w).html_name = "noscript" /\ scripting_enabled
  THEN write_all(w, text)
  ELSE write_escaped(w, text, FALSE)

write_comment(w, text) == write_all(w, <<"<","!","-","-">> \o text \o <<"-","-",">">>)

write_doctype(w, name) ==
  write_all(w, <<"<","!","D","O","C","T","Y","P","E"," ">> \o name \o <<">">>)

write_processing_instruction(w, target, contents) ==
  write_all(w, <<"<","?">> \o target \o <<" ">> \o contents \o <<">">>)

RECURSIVE serialize_node(_, _, _, _)
RECURSIVE serialize_children(_, _, _, _)
serialize_children(w, L, D, child) ==
  IF child = None THEN w
  ELSE CHOOSE r \in {serialize_children(w1, L, D, L.next_sibling[child]) :
                       w1 \in {serialize_node(w, L, D, child)}} : TRUE

serialize_node(w, L, D, node) ==
  CASE D[node].kind = "Element" ->
         end_elem(serialize_children(start_elem(w, L, D, node), L, D, L.first_child[node]),
                  L, D, node)
    [] D[node].kind = "Comment" -> write_comment(w, D[node].contents)
    [] D[node].kind = "Doctype" -> write_doctype(w, D[node].contents)
    [] D[node].kind = "Document" -> serialize_children(w, L, D, L.first_child[node])
    [] D[node].kind = "ProcessingInstruction" ->
         write_processing_instruction(w, as_bytes(D[node].target), D[node].contents)
    [] D[node].kind = "Text" -> write_text(w, D[node].contents)

\* serialize(writer, node, SerializeOpts::default())
serialize(w, L, D, node) == serialize_node(w, L, D, node)


(***************************************************************************)
(* The parser the library calls (html5ever::parse_document with the Sink   *)
(* of arena.rs): the tokenizer and the tree construction of the HTML       *)
(* standard, for the elements of the documents below (html, head, body,    *)
(* script, style, meta, link, br, img, p, div, canvas), text, comments     *)
(* and the doctype.  The tree is built with the Sink's own operations      *)
(* (arena.rs:261-460).                                                     *)
(***************************************************************************)
Letters ==
  {"a","b","c","d","e","f","g","h","i","j","k","l","m","n","o","p","q","r","s","t",
   "u","v","w","x","y","z"}

is_alphanumeric(c) == c \in Letters \/ is_ascii_digit(c)

\* the bytes of pat are at position i of s
MatchAt(s, i, pat) ==
  i + Len(pat) - 1 <= Len(s) /\ \A k \in 1..Len(pat) : s[i + k - 1] = pat[k]

\* the first position from i where pat is, or Len(s) + 1
IndexOf(s, i, pat) ==
  IF \E k \in i..Len(s) : MatchAt(s, k, pat)
  THEN CHOOSE k \in i..Len(s) : MatchAt(s, k, pat) /\ \A j \in i..(k - 1) : ~MatchAt(s, j, pat)
  ELSE Len(s) + 1

\* the first position from i whose character is in cs, or Len(s) + 1
IndexIn(s, i, cs) ==
  IF \E k \in i..Len(s) : s[k] \in cs
  THEN CHOOSE k \in i..Len(s) : s[k] \in cs /\ \A j \in i..(k - 1) : s[j] \notin cs
  ELSE Len(s) + 1

\* the first position from i whose character is not in cs, or Len(s) + 1
IndexNotIn(s, i, cs) ==
  IF \E k \in i..Len(s) : s[k] \notin cs
  THEN CHOOSE k \in i..Len(s) : s[k] \notin cs /\ \A j \in i..(k - 1) : s[j] \in cs
  ELSE Len(s) + 1

\* the name with these bytes
NameOf(bytes) ==
  IF \E n \in DOMAIN NameBytes : NameBytes[n] = bytes
  THEN CHOOSE n \in DOMAIN NameBytes : NameBytes[n] = bytes
  ELSE "unknown"

\* the character references of the standard's table that the serializer writes
CharRefs ==
  << [name |-> <<"a","m","p">>, char |-> "&"], [name |-> <<"l","t">>, char |-> "<"],
     [name |-> <<"g","t">>, char |-> ">"], [name |-> <<"q","u","o","t">>, char |-> "\""],
     [name |-> <<"n","b","s","p">>, char |-> chr_nbsp] >>

\* the reference at the "&" of position i: [char, next], next = i when none.
\* A reference without its ";" is not one in an attribute value when "=" or
\* an alphanumeric follows it.
CharRefAt(s, i, in_attr) ==
  LET with == {k \in 1..Len(CharRefs) : MatchAt(s, i + 1, CharRefs[k].name \o <<";">>)}
      bare == {k \in 1..Len(CharRefs) :
                 /\ MatchAt(s, i + 1, CharRefs[k].name)
                 /\ ~(/\ in_attr
                      /\ i + 1 + Len(CharRefs[k].name) <= Len(s)
                      /\ LET c == s[i + 1 + Len(CharRefs[k].name)]
                         IN  c = "=" \/ is_alphanumeric(c))}
  IN  IF with # {}
      THEN LET k == CHOOSE x \in with : TRUE
           IN  [char |-> CharRefs[k].char, next |-> i + 2 + Len(CharRefs[k].name)]
      ELSE IF bare # {}
      THEN LET k == CHOOSE x \in bare : TRUE
           IN  [char |-> CharRefs[k].char, next |-> i + 1 + Len(CharRefs[k].name)]
      ELSE [char |-> "&", next |-> i + 1]

\* s[i..j-1] with its character references replaced
RECURSIVE Decode(_, _, _, _)
Decode(s, i, j, in_attr) ==
  IF i >= j THEN <<>>
  ELSE IF s[i] = "&"
  THEN LET r == CharRefAt(SubSeq(s, 1, j - 1), i, in_attr)
       IN  <<r.char>> \o Decode(s, r.next, j, in_attr)
  ELSE <<s[i]>> \o Decode(s, i + 1, j, in_attr)

TagEnd == WhitespaceChars \cup {"/", ">"}

\* the attributes of a start tag from position i: [attrs, next, self_closing]
RECURSIVE TokenizeAttrs(_, _, _)
TokenizeAttrs(s, i0, attrs) ==
  LET i == IndexNotIn(s, i0, WhitespaceChars)
  IN  IF i > Len(s) THEN [attrs |-> attrs, next |-> i, self_closing |-> FALSE]
      ELSE IF s[i] = ">" THEN [attrs |-> attrs, next |-> i + 1, self_closing |-> FALSE]
      ELSE IF s[i] = "/"
      THEN IF MatchAt(s, i, <<"/", ">">>)
           THEN [attrs |-> attrs, next |-> i + 2, self_closing |-> TRUE]
           ELSE TokenizeAttrs(s, i + 1, attrs)
      ELSE LET e == IndexIn(s, i + 1, TagEnd \cup {"="})
               name == NameOf(SubSeq(s, i, e - 1))
               q == IndexNotIn(s, e, WhitespaceChars)
               keep(a) == IF \E k \in 1..Len(attrs) : attrs[k].local = a.local
                          THEN attrs ELSE Append(attrs, a)
           IN  IF q > Len(s) \/ s[q] # "="
               THEN TokenizeAttrs(s, e, keep(Attr("", name, <<>>)))
               ELSE LET v == IndexNotIn(s, q + 1, WhitespaceChars)
                    IN  IF v > Len(s) THEN [attrs |-> attrs, next |-> v, self_closing |-> FALSE]
                        ELSE IF s[v] \in {"\"", "'"}
                        THEN LET c == IndexIn(s, v + 1, {s[v]})
                             IN  TokenizeAttrs(s, c + 1,
                                   keep(Attr("", name, Decode(s, v + 1, c, TRUE))))
                        ELSE LET c == IndexIn(s, v, WhitespaceChars \cup {">"})
                             IN  TokenizeAttrs(s, c, keep(Attr("", name, Decode(s, v, c, TRUE))))

CharTokens(text) == [k \in 1..Len(text) |-> [t |-> "char", c |-> text[k]]]

\* the tokens of s from position i.  After the start tag of a script or a
\* style element the text up to its end tag is not markup.
RECURSIVE Tokenize5(_, _)
Tokenize5(s, i) ==
  IF i > Len(s) THEN <<>>
  ELSE IF MatchAt(s, i, <<"<","!","-","-">>)
  THEN LET e == IndexOf(s, i + 4, <<"-","-",">">>)
       IN  <<[t |-> "comment", text |-> SubSeq(s, i + 4, e - 1)]>> \o Tokenize5(s, e + 3)
  ELSE IF MatchAt(s, i, <<"<","!","D","O","C","T","Y","P","E">>)
  THEN LET b == IndexNotIn(s, i + 9, WhitespaceChars)
           e == IndexIn(s, b, {">"})
       IN  <<[t |-> "doctype", name |-> SubSeq(s, b, e - 1)]>> \o Tokenize5(s, e + 1)
  ELSE IF MatchAt(s, i, <<"<","/">>) /\ i + 2 <= Len(s) /\ s[i + 2] \in Letters
  THEN LET n == IndexIn(s, i + 2, TagEnd)
           e == IndexIn(s, n, {">"})
       IN  <<[t |-> "end", name |-> NameOf(SubSeq(s, i + 2, n - 1))]>> \o Tokenize5(s, e + 1)
  ELSE IF s[i] = "<" /\ i + 1 <= Len(s) /\ s[i + 1] \in Letters
  THEN LET n == IndexIn(s, i + 1, TagEnd)
           name == NameOf(SubSeq(s, i + 1, n - 1))
           a == TokenizeAttrs(s, n, <<>>)
           tok == [t |-> "start", name |-> name, attrs |-> a.attrs,
                   self_closing |-> a.self_closing]
       IN  IF name \in {"script", "style"}
           THEN LET e == IndexOf(s, a.next, <<"<","/">> \o as_bytes(name))
                IN  <<tok>> \o CharTokens(SubSeq(s, a.next, e - 1)) \o Tokenize5(s, e)
           ELSE <<tok>> \o Tokenize5(s, a.next)
  ELSE IF s[i] = "&"
  THEN LET r == CharRefAt(s, i, FALSE)
       IN  <<[t |-> "char", c |-> r.char]>> \o Tokenize5(s, r.next)
  ELSE <<[t |-> "char", c |-> s[i]]>> \o Tokenize5(s, i + 1)


\* Sink::new (arena.rs:34-41)
SinkNew == [D |-> <<DocumentData>>, L |-> EmptyLinks({Document}), open |-> <<>>,
            mode |-> "initial", original |-> "initial"]

\* the current node: the last of the stack of open elements
Current(P) == P.open[Len(P.open)]

\* Sink::append of a new node (arena.rs:388-394, 262-264)
SinkAppendNode(P, p, d) ==
  [Alloc(P, d) EXCEPT !.L = append(@, p, Len(P.D) + 1)]

\* Sink::append of text (arena.rs:266-296): joined to a Text last child
SinkAppendText(P, p, text) ==
  IF P.L.last_child[p] # None /\ P.D[P.L.last_child[p]].kind = "Text"
  THEN [P EXCEPT !.D[P.L.last_child[p]].contents = @ \o text]
  ELSE SinkAppendNode(P, p, TextData(text, 1))

\* Sink::add_attrs_if_missing (arena.rs:430-446)
add_attrs_if_missing(P, target, attrs) ==
  [P EXCEPT !.D[target].attrs =
     @ \o SelectSeq(attrs, LAMBDA a : ~has_attribute(P.D[target], a.ns, a.local))]

\* insert an HTML element for a token: created, appended to p, pushed
InsertElementAt(P, p, name, attrs) ==
  [SinkAppendNode(P, p, ElementData("html", name, attrs, 1))
     EXCEPT !.open = Append(@, Len(P.D) + 1)]

InsertElement(P, name, attrs) == InsertElementAt(P, Current(P), name, attrs)

PopOpen(P) == [P EXCEPT !.open = SubSeq(@, 1, Len(@) - 1)]

InsertComment(P, p, text) == SinkAppendNode(P, p, CommentData(text, 1))

Mode(P, m) == [P EXCEPT !.mode = m]

OpenHas(P, names) == \E k \in 1..Len(P.open) : P.D[P.open[k]].local \in names

\* pop the open elements up to and including the last one with this name
RECURSIVE PopUntil(_, _)
PopUntil(P, name) ==
  IF P.open = <<>> THEN P
  ELSE IF P.D[Current(P)].local = name THEN PopOpen(P) ELSE PopUntil(PopOpen(P), name)

\* generate implied end tags, then pop up to the element with this name
CloseElement(P, name) == IF OpenHas(P, {name}) THEN PopUntil(P, name) ELSE P

\* the element the parser holds as the head element
HeadOf(P) == find(P.L, P.D, Document, "html", "head")

HeadStartTags == {"base", "basefont", "bgsound", "link", "meta", "noframes", "script",
                  "style", "template", "title"}

BlockStartTags == PClosers \ {"h1", "h2", "h3", "h4", "h5", "h6", "pre", "form", "hr",
                             "table"}

\* the "in head" rules for the start tags of HeadStartTags
InHeadStart(P, tok) ==
  IF tok.name \in {"script", "style"}
  THEN [InsertElement(P, tok.name, tok.attrs) EXCEPT !.mode = "text", !.original = P.mode]
  ELSE PopOpen(InsertElement(P, tok.name, tok.attrs))

IsStart(tok, names) == tok.t = "start" /\ tok.name \in names
IsEnd(tok, names) == tok.t = "end" /\ tok.name \in names
IsSpace(tok) == tok.t = "char" /\ tok.c \in WhitespaceChars

\* the "in body" rules
InBody(P, tok) ==
  CASE tok.t = "char" -> SinkAppendText(P, Current(P), <<tok.c>>)
    [] tok.t = "comment" -> InsertComment(P, Current(P), tok.text)
    [] tok.t \in {"doctype", "eof"} -> P
    [] IsStart(tok, {"html"}) -> add_attrs_if_missing(P, P.open[1], tok.attrs)
    [] IsStart(tok, HeadStartTags) -> InHeadStart(P, tok)
    [] IsStart(tok, {"body"}) ->
         IF Len(P.open) >= 2 /\ P.D[P.open[2]].local = "body"
         THEN add_attrs_if_missing(P, P.open[2], tok.attrs) ELSE P
    [] IsStart(tok, {"head"}) -> P
    [] IsEnd(tok, {"body"}) -> IF OpenHas(P, {"body"}) THEN Mode(P, "after body") ELSE P
    [] IsStart(tok, BlockStartTags) -> InsertElement(CloseElement(P, "p"), tok.name, tok.attrs)
    [] IsStart(tok, {"area", "br", "embed", "img", "keygen", "wbr"}) ->
         PopOpen(InsertElement(P, tok.name, tok.attrs))
    [] IsEnd(tok, {"p"}) ->
         IF OpenHas(P, {"p"}) THEN PopUntil(P, "p") ELSE PopOpen(InsertElement(P, "p", <<>>))
    [] IsEnd(tok, {"br"}) -> PopOpen(InsertElement(P, "br", <<>>))
    [] tok.t = "start" -> InsertElement(P, tok.name, tok.attrs)
    [] OTHER -> CloseElement(P, tok.name)

\* the tree construction step for one token (the insertion modes)
RECURSIVE TreeStep(_, _)
TreeStep(P, tok) ==
  CASE P.mode = "initial" ->
         IF IsSpace(tok) THEN P
         ELSE IF tok.t = "comment" THEN InsertComment(P, Document, tok.text)
         ELSE IF tok.t = "doctype"
         THEN Mode(SinkAppendNode(P, Document, DoctypeData(tok.name, 1)), "before html")
         ELSE TreeStep(Mode(P, "before html"), tok)
    [] P.mode = "before html" ->
         IF tok.t = "doctype" \/ IsSpace(tok) THEN P
         ELSE IF tok.t = "comment" THEN InsertComment(P, Document, tok.text)
         ELSE IF IsStart(tok, {"html"})
         THEN Mode(InsertElementAt(P, Document, "html", tok.attrs), "before head")
         ELSE IF tok.t = "end" /\ tok.name \notin {"head", "body", "html", "br"} THEN P
         ELSE TreeStep(Mode(InsertElementAt(P, Document, "html", <<>>), "before head"), tok)
    [] P.mode = "before head" ->
         IF tok.t = "doctype" \/ IsSpace(tok) THEN P
         ELSE IF tok.t = "comment" THEN InsertComment(P, Current(P), tok.text)
         ELSE IF IsStart(tok, {"html"}) THEN InBody(P, tok)
         ELSE IF IsStart(tok, {"head"}) THEN Mode(InsertElement(P, "head", tok.attrs), "in head")
         ELSE IF tok.t = "end" /\ tok.name \notin {"head", "body", "html", "br"} THEN P
         ELSE TreeStep(Mode(InsertElement(P, "head", <<>>), "in head"), tok)
    [] P.mode = "in head" ->
         IF IsSpace(tok) THEN SinkAppendText(P, Current(P), <<tok.c>>)
         ELSE IF tok.t = "comment" THEN InsertComment(P, Current(P), tok.text)
         ELSE IF tok.t = "doctype" THEN P
         ELSE IF IsStart(tok, {"html"}) THEN InBody(P, tok)
         ELSE IF IsStart(tok, HeadStartTags) THEN InHeadStart(P, tok)
         ELSE IF IsEnd(tok, {"head"}) THEN Mode(PopOpen(P), "after head")
         ELSE IF IsStart(tok, {"head"}) \/ (tok.t = "end" /\ tok.name \notin {"body", "html", "br"})
         THEN P
         ELSE TreeStep(Mode(PopOpen(P), "after head"), tok)
    [] P.mode = "text" ->
         IF tok.t = "char" THEN SinkAppendText(P, Current(P), <<tok.c>>)
         ELSE Mode(PopOpen(P), P.original)
    [] P.mode = "after head" ->
         IF IsSpace(tok) THEN SinkAppendText(P, Current(P), <<tok.c>>)
         ELSE IF tok.t = "comment" THEN InsertComment(P, Current(P), tok.text)
         ELSE IF tok.t = "doctype" THEN P
         ELSE IF IsStart(tok, {"html"}) THEN InBody(P, tok)
         ELSE IF IsStart(tok, {"body"}) THEN Mode(InsertElement(P, "body", tok.attrs), "in body")
         ELSE IF IsStart(tok, HeadStartTags)
         THEN [InHeadStart([P EXCEPT !.open = Append(@, HeadOf(P))], tok)
                 EXCEPT !.open = SelectSeq(@, LAMBDA n : n # HeadOf(P))]
         ELSE IF IsStart(tok, {"head"}) \/ (tok.t = "end" /\ tok.name \notin {"body", "html", "br"})
         THEN P
         ELSE TreeStep(Mode(InsertElement(P, "body", <<>>), "in body"), tok)
    [] P.mode = "in body" ->
         IF IsEnd(tok, {"html"})
         THEN IF OpenHas(P, {"body"}) THEN TreeStep(Mode(P, "after body"), tok) ELSE P
         ELSE InBody(P, tok)
    [] P.mode = "after body" ->
         IF IsSpace(tok) \/ IsStart(tok, {"html"}) THEN InBody(P, tok)
         ELSE IF tok.t = "comment" THEN InsertComment(P, P.open[1], tok.text)
         ELSE IF tok.t \in {"doctype", "eof"} THEN P
         ELSE IF IsEnd(tok, {"html"}) THEN Mode(P, "after after body")
         ELSE TreeStep(Mode(P, "in body"), tok)
    [] P.mode = "after after body" ->
         IF tok.t = "comment" THEN InsertComment(P, Document, tok.text)
         ELSE IF IsSpace(tok) \/ IsStart(tok, {"html"}) \/ tok.t = "doctype" THEN InBody(P, tok)
         ELSE IF tok.t = "eof" THEN P
         ELSE TreeStep(Mode(P, "in body"), tok)

RECURSIVE TreeSteps(_, _, _)
TreeSteps(P, toks, i) ==
  IF i > Len(toks) THEN P
  ELSE CHOOSE R \in {TreeSteps(P1, toks, i + 1) : P1 \in {TreeStep(P, toks[i])}} : TRUE

\* parse_document(Sink::new(arena), ParseOpts::default()).one(bytes)
parse_document(bytes) ==
  LET P == TreeSteps(SinkNew, Tokenize5(bytes, 1) \o <<[t |-> "eof"]>>, 1)
  IN  [L |-> P.L, D |-> P.D]


(***************************************************************************)
(* SpecSerialize: serialize (serialize.rs:17-23) on a document, then       *)
(* parse_document on the bytes, as tests::test does (serialize.rs:534-550).*)
(* The documents have the shape the parser gives every document: an        *)
(* optional doctype, then html with a head and a body.  `how` says whether *)
(* the parser can have produced the tree ("parse") or whether it was put   *)
(* together with append ("append": a void element with children).          *)
(***************************************************************************)
\* a node of a document and the nodes under it
Kid(d, kids) == [d |-> d, kids |-> kids]

val_a == <<"a">>
val_a_b == <<"a", " ", "b">>
val_ref == <<"&", "l", "t", ";">>
txt_a == <<"a">>
txt_sp_a == <<" ", "a">>
txt_lt == <<"a", "<", "b", "&">>

HeadKids ==
  { Kid(ElementData("html", "script", <<>>, 1), <<Kid(TextData(txt_lt, 1), <<>>)>>),
    Kid(ElementData("html", "meta", <<Attr("", "id", val_a)>>, 1), <<>>),
    Kid(CommentData(txt_a, 1), <<>>) }

BodyKids ==
  { Kid(ElementData("html", "p", <<>>, 1), <<Kid(TextData(txt_a, 1), <<>>)>>),
    Kid(ElementData("html", "div", <<Attr("", "class", val_a_b)>>, 1),
        <<Kid(ElementData("html", "p", <<>>, 1), <<>>)>>),
    Kid(ElementData("html", "div", <<Attr("", "id", val_ref)>>, 1), <<>>),
    Kid(ElementData("html", "div", <<Attr("", "id", <<>>), Attr("", "lang", val_a)>>, 1), <<>>),
    Kid(ElementData("html", "script", <<>>, 1), <<Kid(TextData(txt_lt, 1), <<>>)>>),
    Kid(ElementData("html", "br", <<>>, 1), <<>>),
    Kid(TextData(txt_lt, 1), <<>>),
    Kid(TextData(txt_sp_a, 1), <<>>),
    Kid(CommentData(txt_a, 1), <<>>) }

\* a void element with children: only append makes such a tree
VoidKids ==
  { Kid(ElementData("html", "br", <<>>, 1), <<Kid(TextData(txt_a, 1), <<>>)>>),
    Kid(ElementData("html", "br", <<>>, 1), <<Kid(CommentData(txt_a, 1), <<>>)>>),
    Kid(ElementData("html", "img", <<Attr("", "src", val_a)>>, 1),
        <<Kid(ElementData("html", "p", <<>>, 1), <<Kid(TextData(txt_a, 1), <<>>)>>)>>) }

\* the parser joins adjacent text into one Text node
NoAdjacentText(kids) ==
  \A i \in 1..(Len(kids) - 1) : ~(kids[i].d.kind = "Text" /\ kids[i + 1].d.kind = "Text")

RECURSIVE AppendKid(_, _, _)
RECURSIVE AppendKidSeq(_, _, _)
AppendKidSeq(T, p, kids) ==
  IF kids = <<>> THEN T ELSE AppendKidSeq(AppendKid(T, p, Head(kids)), p, Tail(kids))

AppendKid(T, p, kid) ==
  AppendKidSeq(SinkAppendNode(T, p, kid.d), Len(T.D) + 1, kid.kids)

MaxBodyKids == 2

SerializeDocument(doctype, html_attrs, head_kids, body_attrs, body_kids) ==
  LET T0 == [D |-> <<DocumentData>>, L |-> EmptyLinks({Document})]
      T1 == IF doctype THEN SinkAppendNode(T0, Document, DoctypeData(as_bytes("html"), 1)) ELSE T0
      T2 == SinkAppendNode(T1, Document, ElementData("html", "html", html_attrs, 1))
      html == Len(T2.D)
      T3 == AppendKidSeq(SinkAppendNode(T2, html, ElementData("html", "head", <<>>, 1)),
                         html + 1, head_kids)
      T4 == SinkAppendNode(T3, html, ElementData("html", "body", body_attrs, 1))
  IN  AppendKidSeq(T4, Len(T4.D), body_kids)

OptionalAttrs == {<<>>, <<Attr("", "lang", val_a)>>}

SerializeDocuments ==
  {[how |-> IF \E i \in 1..Len(x[5]) : x[5][i] \in VoidKids THEN "append" ELSE "parse",
    tree |-> SerializeDocument(x[1], x[2], x[3], x[4], x[5])] :
     x \in {y \in BOOLEAN \X OptionalAttrs \X SeqsUpTo(HeadKids, 1) \X OptionalAttrs
                  \X SeqsUpTo(BodyKids \cup VoidKids, MaxBodyKids) :
              /\ NoAdjacentText(y[5])
              /\ (y[1] \/ y[2] # <<>>) => Len(y[5]) <= 1}}

\* the tree below n, without the line numbers: what the equality of two
\* trees compares
RECURSIVE TreeOf(_, _, _)
TreeOf(L, D, n) ==
  LET cl == ChildList(L, NodesOf(D), n)
  IN  <<[D[n] EXCEPT !.line = 0], [i \in 1..Len(cl) |-> TreeOf(L, D, cl[i])]>>

InitSerialize ==
  \E doc \in SerializeDocuments :
    /\ SetLinksInit(doc.tree.L)
    /\ data = doc.tree.D
    /\ allocated = Len(doc.tree.D)
    /\ given = [L |-> doc.tree.L, D |-> doc.tree.D, how |-> doc.how]
    /\ deps = <<>> /\ assets = <<>> /\ errors = <<>>
    /\ has_module_scripts = FALSE
    /\ opts = [scope_hoist |-> FALSE, supports_esm |-> FALSE, hmr |-> FALSE]
    /\ origins = [deps |-> <<>>, assets |-> <<>>]
    /\ out = <<>>
    /\ result = [kind |-> "none"]
    /\ calls = 0
    /\ misused = FALSE
    /\ IdleWalk
    /\ pc = "serialize"
    /\ IdleCore
    /\ IdleSerializer

\* serialize(&mut vec, dom, SerializeOpts::default())
Serialize ==
  /\ pc = "serialize"
  /\ out' = serialize(Writer(-1), Links, data, Document).out
  /\ pc' = "parse"
  /\ UNCHANGED <<linkVars, data, allocated, calls, misused, walkVars, deps, assets,
                 errors, has_module_scripts, opts, origins, given, result>>
  /\ UNCHANGED <<coreVars, serializerVars>>

\* parse_document(...).one(vec.as_slice())
Reparse ==
  /\ pc = "parse"
  /\ result' = [kind |-> "tree", tree |-> parse_document(out)]
  /\ pc' = "parsed"
  /\ UNCHANGED <<linkVars, data, allocated, calls, misused, walkVars, deps, assets,
                 errors, has_module_scripts, opts, origins, given, out>>
  /\ UNCHANGED <<coreVars, serializerVars>>

NextSerialize == Serialize \/ Reparse

SpecSerialize == InitSerialize /\ [][NextSerialize]_vars

\* C12 as stated: a tree the parser produced is equal to the tree parsed
\* from its serialization: the same elements with the same names and
\* nesting, the same attributes and values, the same text and doctype.
C12_ParseOfSerializeIsTheTree ==
  (pc = "parsed" /\ given.how = "parse") =>
    TreeOf(result.tree.L, result.tree.D, Document) = TreeOf(given.L, given.D, Document)


\* the HTML void elements of a tree
VoidNodes(D) == {n \in NodesOf(D) : IsElementNamed(D, n, VoidElements)}

\* the links of the tree in which no void element has a child
WithoutVoidChildren(L, D) ==
  [L EXCEPT !.first_child = [n \in NodesOf(D) |-> IF n \in VoidNodes(D) THEN None ELSE @[n]],
            !.last_child = [n \in NodesOf(D) |-> IF n \in VoidNodes(D) THEN None ELSE @[n]]]

\* C15 as stated: for every tree, serialize writes no byte for what is under
\* a void element (elements, text, comments) and no end tag for the void
\* element: the output is the output for the tree without those children,
\* and no end tag of a void element is in it.
C15_NothingWrittenUnderVoid ==
  pc = "parse" =>
    /\ out = serialize(Writer(-1), WithoutVoidChildren(given.L, given.D), given.D, Document).out
    /\ \A n \in VoidNodes(given.D) :
         IndexOf(out, 1, <<"<", "/">> \o as_bytes(given.D[n].local)) > Len(out)


(***************************************************************************)
(* The structural optimizer (optimize.rs).  Of the elements optimize       *)
(* matches by name, the ones of the documents below are modelled: a,       *)
(* canvas, head, html, img, link, meta, script and style, with the global  *)
(* attributes and the comments.  The documents have no svg element.        *)
(***************************************************************************)
\* char::is_whitespace for the characters of the documents
is_whitespace(c) == is_ascii_whitespace(c) \/ c = chr_nbsp

RECURSIVE SuffixLen(_, _)
SuffixLen(s, cs) ==
  IF s = <<>> \/ s[Len(s)] \notin cs THEN 0 ELSE 1 + SuffixLen(SubSeq(s, 1, Len(s) - 1), cs)

RustWhitespace == WhitespaceChars \cup {chr_nbsp}

\* str::trim
str_trim(s) ==
  IF PrefixLen(s, RustWhitespace) = Len(s) THEN <<>>
  ELSE SubSeq(s, PrefixLen(s, RustWhitespace) + 1, Len(s) - SuffixLen(s, RustWhitespace))

\* str::split_whitespace
RECURSIVE split_whitespace(_)
split_whitespace(s) ==
  IF PrefixLen(s, RustWhitespace) = Len(s) THEN <<>>
  ELSE <<Take(Drop(s, PrefixLen(s, RustWhitespace)),
              PrefixLenNot(Drop(s, PrefixLen(s, RustWhitespace)), RustWhitespace))>>
       \o split_whitespace(Drop(s, PrefixLen(s, RustWhitespace)
                                     + PrefixLenNot(Drop(s, PrefixLen(s, RustWhitespace)),
                                                    RustWhitespace)))

\* str::split(','): the items between the commas
RECURSIVE split_comma(_)
split_comma(s) ==
  IF ~contains(s, ",") THEN <<s>>
  ELSE <<Take(s, find_char(s, ","))>> \o split_comma(Drop(s, find_char(s, ",") + 1))

\* the characters of the documents in the order of their bytes
ByteOrder ==
  <<"\t", "\n", " ", "&", "+", ",", "-", ".", "/", "0", "1", "2", "3", "4", "5", "6", "7",
    "8", "9", ";", "<", "=", ">", "A", "B", "C", "S", "T", "[", "]", "_", "a", "b", "c",
    "d", "e", "f", "g", "h", "i", "j", "k", "l", "m", "n", "o", "p", "q", "r", "s", "t",
    "u", "v", "w", "x", "y", "z", "{", "}", chr_nbsp>>

ByteOf(c) == CHOOSE i \in 1..Len(ByteOrder) : ByteOrder[i] = c

\* Ord for str: the order of the bytes
RECURSIVE str_lt(_, _)
str_lt(a, b) ==
  IF b = <<>> THEN FALSE
  ELSE IF a = <<>> THEN TRUE
  ELSE IF a[1] # b[1] THEN ByteOf(a[1]) < ByteOf(b[1])
  ELSE str_lt(Tail(a), Tail(b))

\* Vec::sort
RECURSIVE sort(_)
sort(items) ==
  IF items = <<>> THEN <<>>
  ELSE LET m == CHOOSE i \in 1..Len(items) :
                  \A j \in 1..Len(items) : ~str_lt(items[j], items[i])
       IN  <<items[m]>> \o sort(SubSeq(items, 1, m - 1) \o SubSeq(items, m + 1, Len(items)))

Items(rs) == [i \in 1..Len(rs) |-> rs[i].x]

\* Vec::dedup: of consecutive equal items the first is kept
dedup(items) ==
  Items(SelectSeq([i \in 1..Len(items) |->
                     [x |-> items[i], keep |-> i = 1 \/ items[i] # items[i - 1]]],
                  LAMBDA r : r.keep))

\* items.retain(|item| seen.insert(*item)): the first of equal items is kept
retain_unseen(items) ==
  Items(SelectSeq([i \in 1..Len(items) |->
                     [x |-> items[i], keep |-> \A j \in 1..(i - 1) : items[j] # items[i]]],
                  LAMBDA r : r.keep))

UpperLetters == <<"A", "B", "C", "S", "T">>
LowerLetters == <<"a", "b", "c", "s", "t">>

to_ascii_lowercase(c) ==
  IF \E i \in 1..Len(UpperLetters) : UpperLetters[i] = c
  THEN LowerLetters[CHOOSE i \in 1..Len(UpperLetters) : UpperLetters[i] = c]
  ELSE c

to_lowercase(s) == [i \in 1..Len(s) |-> to_ascii_lowercase(s[i])]

eq_ignore_ascii_case(a, b) == to_lowercase(a) = to_lowercase(b)

\* serialize_space_separated (optimize.rs:552-564)
RECURSIVE serialize_space_separated(_)
serialize_space_separated(items) ==
  IF items = <<>> THEN <<>>
  ELSE IF Len(items) = 1 THEN items[1]
  ELSE items[1] \o <<" ">> \o serialize_space_separated(Tail(items))

OGet(T, node, attr) == get_attribute(T.D[node], "", attr)

\* trim (optimize.rs:499-512)
trim(T, node, attr, o) ==
  IF ~o.collapse_attribute_whitespace \/ OGet(T, node, attr) = Absent THEN T
  ELSE IF str_trim(OGet(T, node, attr)) = <<>> /\ o.remove_empty_attributes
  THEN RemoveAttr(T, node, "", attr)
  ELSE IF Len(str_trim(OGet(T, node, attr))) # Len(OGet(T, node, attr))
  THEN SetAttr(T, node, "", attr, str_trim(OGet(T, node, attr)))
  ELSE T

\* trim_with_default (optimize.rs:514-534)
trim_with_default(T, node, attr, default, o) ==
  IF ~o.collapse_attribute_whitespace \/ OGet(T, node, attr) = Absent THEN T
  ELSE IF \/ str_trim(OGet(T, node, attr)) = <<>> /\ o.remove_empty_attributes
          \/ str_trim(OGet(T, node, attr)) = default /\ o.remove_redundant_attributes
  THEN RemoveAttr(T, node, "", attr)
  ELSE IF Len(str_trim(OGet(T, node, attr))) # Len(OGet(T, node, attr))
  THEN SetAttr(T, node, "", attr, str_trim(OGet(T, node, attr)))
  ELSE T

\* the attribute is removed when it has no item, else set to the items
SetItems(T, node, attr, items, o) ==
  IF items = <<>> /\ o.remove_empty_attributes THEN RemoveAttr(T, node, "", attr)
  ELSE SetAttr(T, node, "", attr, serialize_space_separated(items))

\* space_separated (optimize.rs:537-550)
space_separated(T, node, attr, o) ==
  IF ~o.collapse_attribute_whitespace \/ OGet(T, node, attr) = Absent THEN T
  ELSE SetItems(T, node, attr, split_whitespace(OGet(T, node, attr)), o)

\* the items after `if options.sort_attributes_with_lists { ... }`
SortedItems(items, o) ==
  IF o.sort_attributes_with_lists
  THEN (IF o.deduplicate_attribute_values THEN dedup(sort(items)) ELSE sort(items))
  ELSE items

\* unordered_space_separated_set (optimize.rs:566-591)
unordered_space_separated_set(T, node, attr, o) ==
  IF ~o.collapse_attribute_whitespace \/ OGet(T, node, attr) = Absent THEN T
  ELSE SetItems(T, node, attr, SortedItems(split_whitespace(OGet(T, node, attr)), o), o)

\* ordered_space_separated_set (optimize.rs:593-617)
ordered_space_separated_set(T, node, attr, o) ==
  IF ~o.collapse_attribute_whitespace \/ OGet(T, node, attr) = Absent THEN T
  ELSE SetItems(T, node, attr,
                IF o.deduplicate_attribute_values
                THEN retain_unseen(split_whitespace(OGet(T, node, attr)))
                ELSE split_whitespace(OGet(T, node, attr)), o)

\* the loop of comma_separated (optimize.rs:626-635)
RECURSIVE CommaLoop(_, _)
CommaLoop(acc, items) ==
  IF items = <<>> THEN acc
  ELSE CommaLoop((IF acc # <<>> THEN acc \o <<",">> ELSE acc) \o str_trim(Head(items)),
                 Tail(items))

\* comma_separated (optimize.rs:619-642)
comma_separated(T, node, attr, o) ==
  IF ~o.collapse_attribute_whitespace \/ OGet(T, node, attr) = Absent THEN T
  ELSE IF CommaLoop(<<>>, split_comma(OGet(T, node, attr))) = <<>> /\ o.remove_empty_attributes
  THEN RemoveAttr(T, node, "", attr)
  ELSE SetAttr(T, node, "", attr, CommaLoop(<<>>, split_comma(OGet(T, node, attr))))

\* `if value != lower { set_attribute(lower) }`
Lowered(T, node, attr) ==
  IF OGet(T, node, attr) # to_lowercase(OGet(T, node, attr))
  THEN SetAttr(T, node, "", attr, to_lowercase(OGet(T, node, attr)))
  ELSE T

\* case_insensitive (optimize.rs:644-655)
case_insensitive(T, node, attr, o) ==
  IF ~o.normalize_attribute_values \/ OGet(T, node, attr) = Absent THEN T
  ELSE Lowered(T, node, attr)

\* enumerated (optimize.rs:657-676)
enumerated(T, node, attr, default, o) ==
  IF OGet(T, node, attr) = Absent THEN T
  ELSE IF eq_ignore_ascii_case(OGet(T, node, attr), default) /\ o.remove_redundant_attributes
  THEN RemoveAttr(T, node, "", attr)
  ELSE IF o.normalize_attribute_values THEN Lowered(T, node, attr)
  ELSE T

\* boolean (optimize.rs:678-688)
boolean(T, node, attr, o) ==
  IF ~o.collapse_boolean_attributes \/ OGet(T, node, attr) = Absent THEN T
  ELSE IF eq_ignore_ascii_case(OGet(T, node, attr), as_bytes(attr))
  THEN SetAttr(T, node, "", attr, <<>>)
  ELSE T

\* the loop of remove_whitespace (optimize.rs:695-715)
RECURSIVE RemoveWhitespaceLoop(_, _)
RemoveWhitespaceLoop(T, c) ==
  IF c = None THEN T
  ELSE IF T.D[c].kind # "Text" THEN RemoveWhitespaceLoop(T, T.L.next_sibling[c])
  ELSE IF str_trim(T.D[c].contents) = <<>>
  THEN RemoveWhitespaceLoop([T EXCEPT !.L = detach(@, c)], T.L.next_sibling[c])
  ELSE RemoveWhitespaceLoop(
         [T EXCEPT !.D[c].contents = serialize_space_separated(split_whitespace(str_trim(@)))],
         T.L.next_sibling[c])

\* remove_whitespace (optimize.rs:690-716)
remove_whitespace(T, node, o) ==
  IF ~o.collapse_whitespace THEN T ELSE RemoveWhitespaceLoop(T, T.L.first_child[node])

\* https://mimesniff.spec.whatwg.org/#javascript-mime-type (optimize.rs:281-296)
JavascriptMimeTypes ==
  {<<"a", "p", "p", "l", "i", "c", "a", "t", "i", "o", "n", "/", "e", "c", "m", "a", "s", "c", "r", "i", "p", "t">>,
   <<"a", "p", "p", "l", "i", "c", "a", "t", "i", "o", "n", "/", "j", "a", "v", "a", "s", "c", "r", "i", "p", "t">>,
   <<"a", "p", "p", "l", "i", "c", "a", "t", "i", "o", "n", "/", "x", "-", "e", "c", "m", "a", "s", "c", "r", "i", "p", "t">>,
   <<"a", "p", "p", "l", "i", "c", "a", "t", "i", "o", "n", "/", "x", "-", "j", "a", "v", "a", "s", "c", "r", "i", "p", "t">>,
   <<"t", "e", "x", "t", "/", "e", "c", "m", "a", "s", "c", "r", "i", "p", "t">>,
   <<"t", "e", "x", "t", "/", "j", "a", "v", "a", "s", "c", "r", "i", "p", "t">>,
   <<"t", "e", "x", "t", "/", "j", "a", "v", "a", "s", "c", "r", "i", "p", "t", "1", ".", "0">>,
   <<"t", "e", "x", "t", "/", "j", "a", "v", "a", "s", "c", "r", "i", "p", "t", "1", ".", "1">>,
   <<"t", "e", "x", "t", "/", "j", "a", "v", "a", "s", "c", "r", "i", "p", "t", "1", ".", "2">>,
   <<"t", "e", "x", "t", "/", "j", "a", "v", "a", "s", "c", "r", "i", "p", "t", "1", ".", "3">>,
   <<"t", "e", "x", "t", "/", "j", "a", "v", "a", "s", "c", "r", "i", "p", "t", "1", ".", "4">>,
   <<"t", "e", "x", "t", "/", "j", "a", "v", "a", "s", "c", "r", "i", "p", "t", "1", ".", "5">>,
   <<"t", "e", "x", "t", "/", "j", "s", "c", "r", "i", "p", "t">>,
   <<"t", "e", "x", "t", "/", "l", "i", "v", "e", "s", "c", "r", "i", "p", "t">>,
   <<"t", "e", "x", "t", "/", "x", "-", "e", "c", "m", "a", "s", "c", "r", "i", "p", "t">>,
   <<"t", "e", "x", "t", "/", "x", "-", "j", "a", "v", "a", "s", "c", "r", "i", "p", "t">>}

str_slash_json == <<"/", "j", "s", "o", "n">>
str_plus_json == <<"+", "j", "s", "o", "n">>

ends_with(s, suffix) ==
  Len(s) >= Len(suffix) /\ SubSeq(s, Len(s) - Len(suffix) + 1, Len(s)) = suffix

\* serde_json::to_string(serde_json::from_str(text)) for an array or an
\* object without members: the text without its whitespace; Absent for Err
serde_json_minify(text) ==
  IF SelectSeq(text, LAMBDA c : ~is_ascii_whitespace(c)) \in {<<"[", "]">>, <<"{", "}">>}
     /\ text # <<>> /\ text[1] \notin {"]", "}"}
  THEN SelectSeq(text, LAMBDA c : ~is_ascii_whitespace(c))
  ELSE Absent

\* Node::set_text_content (arena.rs:195-204): a new Text node becomes the
\* first and the last child; no other link is written
set_text_content(T, node, content) ==
  [Alloc(T, TextData(content, 0))
     EXCEPT !.L.first_child[node] = Len(T.D) + 1,
            !.L.last_child[node] = Len(T.D) + 1]

\* the `type` of a script (optimize.rs:278-315)
script_type(T, node, o) ==
  IF OGet(T, node, "type") = Absent THEN T
  ELSE IF \/ OGet(T, node, "type") = <<>> /\ o.remove_empty_attributes
          \/ /\ to_lowercase(OGet(T, node, "type")) \in JavascriptMimeTypes
             /\ o.remove_redundant_attributes
  THEN RemoveAttr(T, node, "", "type")
  ELSE IF /\ o.minify_json
          /\ (ends_with(OGet(T, node, "type"), str_slash_json)
              \/ ends_with(OGet(T, node, "type"), str_plus_json))
          /\ OGet(T, node, "src") = Absent
          /\ OGet(T, node, "integrity") = Absent
          /\ serde_json_minify(text_content(T.L, T.D, node)) # Absent
  THEN set_text_content(T, node, serde_json_minify(text_content(T.L, T.D, node)))
  ELSE T

\* one call of the arm of an element: a function, its attribute, its default
Op(f, attr, default) == [f |-> f, attr |-> attr, default |-> default]

str_stylesheet_rel == <<"s", "t", "y", "l", "e", "s", "h", "e", "e", "t">>

ApplyOp(T, node, op, o) ==
  CASE op.f = "trim" -> trim(T, node, op.attr, o)
    [] op.f = "trim_with_default" -> trim_with_default(T, node, op.attr, op.default, o)
    [] op.f = "space_separated" -> space_separated(T, node, op.attr, o)
    [] op.f = "unordered_space_separated_set" ->
         unordered_space_separated_set(T, node, op.attr, o)
    [] op.f = "ordered_space_separated_set" -> ordered_space_separated_set(T, node, op.attr, o)
    [] op.f = "comma_separated" -> comma_separated(T, node, op.attr, o)
    [] op.f = "case_insensitive" -> case_insensitive(T, node, op.attr, o)
    [] op.f = "enumerated" -> enumerated(T, node, op.attr, op.default, o)
    [] op.f = "boolean" -> boolean(T, node, op.attr, o)
    [] op.f = "remove_whitespace" -> remove_whitespace(T, node, o)
    [] op.f = "script_type" -> script_type(T, node, o)
    [] op.f = "link_stylesheet" ->
         IF OGet(T, node, "rel") = str_stylesheet_rel
         THEN trim_with_default(trim_with_default(T, node, "type", str_text_css, o),
                                node, "media", <<"a", "l", "l">>, o)
         ELSE T
    [] op.f = "detach_if_no_attrs" ->
         IF T.D[node].attrs = <<>> THEN [T EXCEPT !.L = detach(@, node)] ELSE T
    [] op.f = "contenteditable" ->
         IF OGet(T, node, op.attr) = op.default /\ o.normalize_attribute_values
         THEN SetAttr(T, node, "", op.attr, <<>>)
         ELSE T

RECURSIVE ApplyOps(_, _, _, _)
ApplyOps(T, node, ops, o) ==
  IF ops = <<>> THEN T
  ELSE CHOOSE R \in {ApplyOps(T1, node, Tail(ops), o) : T1 \in {ApplyOp(T, node, Head(ops), o)}} :
         TRUE

\* the calls of the arm of an HTML element (optimize.rs:74-384)
ElementOps(name) ==
  CASE
       name = "a" ->
           <<Op("trim", "href", <<>>),
              Op("space_separated", "ping", <<>>),
              Op("unordered_space_separated_set", "rel", <<>>),
              Op("enumerated", "target", <<"_", "s", "e", "l", "f">>)>>
    [] name = "canvas" ->
           <<Op("trim_with_default", "height", <<"1", "5", "0">>),
              Op("trim_with_default", "width", <<"3", "0", "0">>)>>
    [] name = "head" ->
           <<Op("remove_whitespace", "", <<>>)>>
    [] name = "html" ->
           <<Op("remove_whitespace", "", <<>>)>>
    [] name = "img" ->
           <<Op("trim", "src", <<>>),
              Op("comma_separated", "srcset", <<>>),
              Op("comma_separated", "sizes", <<>>),
              Op("enumerated", "referrerpolicy", <<>>),
              Op("enumerated", "decoding", <<"a", "u", "t", "o">>),
              Op("enumerated", "loading", <<"e", "a", "g", "e", "r">>),
              Op("enumerated", "fetchpriority", <<"a", "u", "t", "o">>),
              Op("trim_with_default", "height", <<"1", "5", "0">>),
              Op("trim_with_default", "width", <<"3", "0", "0">>),
              Op("case_insensitive", "crossorigin", <<>>),
              Op("boolean", "ismap", <<>>)>>
    [] name = "link" ->
           <<Op("trim", "href", <<>>),
              Op("unordered_space_separated_set", "rel", <<>>),
              Op("enumerated", "referrerpolicy", <<>>),
              Op("enumerated", "fetchpriority", <<"a", "u", "t", "o">>),
              Op("unordered_space_separated_set", "sizes", <<>>),
              Op("comma_separated", "media", <<>>),
              Op("case_insensitive", "crossorigin", <<>>),
              Op("boolean", "disabled", <<>>),
              Op("link_stylesheet", "rel", <<>>)>>
    [] name = "meta" ->
           <<Op("enumerated", "charset", <<"u", "t", "f", "-", "8">>),
              Op("detach_if_no_attrs", "", <<>>)>>
    [] name = "script" ->
           <<Op("trim", "src", <<>>),
              Op("script_type", "type", <<>>),
              Op("enumerated", "referrerpolicy", <<>>),
              Op("enumerated", "fetchpriority", <<"a", "u", "t", "o">>),
              Op("enumerated", "charset", <<"u", "t", "f", "-", "8">>),
              Op("case_insensitive", "crossorigin", <<>>),
              Op("boolean", "async", <<>>),
              Op("boolean", "defer", <<>>),
              Op("boolean", "nomodule", <<>>)>>
    [] name = "style" ->
           <<Op("comma_separated", "media", <<>>),
              Op("trim_with_default", "type", <<"t", "e", "x", "t", "/", "c", "s", "s">>),
              Op("trim_with_default", "media", <<"a", "l", "l">>)>>
    [] OTHER -> <<>>

\* https://html.spec.whatwg.org/#global-attributes (optimize.rs:438-455)
GlobalOps ==
  <<Op("ordered_space_separated_set", "accesskey", <<>>),
              Op("boolean", "autofocus", <<>>),
              Op("unordered_space_separated_set", "class", <<>>),
              Op("trim", "style", <<>>),
              Op("trim", "itemid", <<>>),
              Op("unordered_space_separated_set", "itemprop", <<>>),
              Op("unordered_space_separated_set", "itemref", <<>>),
              Op("boolean", "itemscope", <<>>),
              Op("unordered_space_separated_set", "itemtype", <<>>),
              Op("contenteditable", "contenteditable", <<"t", "r", "u", "e">>)>>

SvgTextElements == {"text", "textPath", "tspan", "script", "style"}

\* a test that knows the opening comment `[if ...]` only
is_conditional_comment_if_only(contents) ==
  starts_with(contents, <<"[", "i", "f", " ">>) /\ ends_with_char(contents, "]")

is_conditional_comment(contents) ==
  \/ starts_with(contents, <<"[", "i", "f", " ">>) /\ ends_with_char(contents, "]")
  \/ contents = <<"[", "e", "n", "d", "i", "f", "]">>

\* the closure optimize walks the tree with (optimize.rs:71-467)
optimize_visit(T, node, o) ==
  CASE T.D[node].kind = "Element" ->
         ApplyOps(T, node,
                  (IF T.D[node].ns = "html" THEN ElementOps(T.D[node].local)
                   ELSE IF T.D[node].ns = "svg" /\ T.D[node].local \notin SvgTextElements
                   THEN <<Op("remove_whitespace", "", <<>>)>>
                   ELSE <<>>) \o GlobalOps,
                  o)
    [] T.D[node].kind = "Comment" ->
         IF o.remove_comments /\ ~is_conditional_comment(T.D[node].contents)
         THEN [T EXCEPT !.L = detach(@, node)]
         ELSE T
    [] OTHER -> T

\* dom.walk(visit) (arena.rs:171-178) with the closure of optimize
RECURSIVE OptimizeWalk(_, _, _)
OptimizeWalkFrom(T, w, o) == OptimizeWalk(T, WalkAfterVisit(T.L, w.stack, w.cur), o)

OptimizeWalk(T, w, o) ==
  IF w.cur = None THEN T
  ELSE OptimizeWalkFrom(optimize_visit(T, w.cur, o), w, o)

\* optimize (optimize.rs:66-468)
optimize(T, o) == OptimizeWalk(T, [cur |-> Document, stack |-> <<>>], o)


(***************************************************************************)
(* SpecOptimize: optimize_html (lib.rs:212-224) on a document, with any    *)
(* options, and then on its own output: parse, optimize, serialize.        *)
(***************************************************************************)
OptimizeHeadKids ==
  { Kid(ElementData("html", "meta", <<Attr("", "charset", <<"u", "t", "f", "-", "8">>)>>, 1), <<>>),
    Kid(ElementData("html", "link", <<Attr("", "rel", <<"s", "t", "y", "l", "e", "s", "h", "e", "e", "t">>), Attr("", "type", <<"t", "e", "x", "t", "/", "c", "s", "s">>)>>, 1), <<>>),
    Kid(ElementData("html", "style", <<Attr("", "type", <<"t", "e", "x", "t", "/", "c", "s", "s">>)>>, 1), <<Kid(TextData(<<"a">>, 1), <<>>)>>),
    Kid(CommentData(<<"a">>, 1), <<>>),
    Kid(TextData(<<" ">>, 1), <<>>) }

OptimizeBodyKids ==
  { Kid(ElementData("html", "canvas", <<Attr("", "width", <<"3", "0", "0">>)>>, 1), <<>>),
    Kid(ElementData("html", "canvas", <<Attr("", "width", <<" ", "3", "0", " ">>)>>, 1), <<>>),
    Kid(ElementData("html", "div", <<Attr("", "class", <<"b", " ", "a", " ", "b">>)>>, 1), <<Kid(TextData(<<"a">>, 1), <<>>)>>),
    Kid(ElementData("html", "a", <<Attr("", "rel", <<"b", " ", "a", " ", "a">>), Attr("", "href", <<" ", "a", " ">>), Attr("", "target", <<"_", "s", "e", "l", "f">>)>>, 1), <<Kid(TextData(<<"a">>, 1), <<>>)>>),
    Kid(ElementData("html", "img", <<Attr("", "src", <<"a">>), Attr("", "crossorigin", <<"A">>)>>, 1), <<>>),
    Kid(ElementData("html", "script", <<Attr("", "type", <<"t", "e", "x", "t", "/", "j", "a", "v", "a", "s", "c", "r", "i", "p", "t">>), Attr("", "nomodule", <<"n", "o", "m", "o", "d", "u", "l", "e">>)>>, 1), <<Kid(TextData(<<"a">>, 1), <<>>)>>),
    Kid(ElementData("html", "script", <<Attr("", "type", <<"a", "p", "p", "l", "i", "c", "a", "t", "i", "o", "n", "/", "j", "s", "o", "n">>)>>, 1), <<Kid(TextData(<<"[", " ", "]">>, 1), <<>>)>>),
    Kid(ElementData("html", "div", <<Attr("", "id", <<"&", "l", "t", ";">>)>>, 1), <<>>),
    Kid(ElementData("html", "div", <<Attr("", "class", <<" ">>)>>, 1), <<>>),
    Kid(CommentData(<<"a">>, 1), <<>>),
    Kid(CommentData(<<"[", "e", "n", "d", "i", "f", "]">>, 1), <<>>),
    Kid(TextData(<<"a", " ", "b">>, 1), <<>>) }

MaxOptimizeKids == 1

OptimizeDocuments ==
  {SerializeDocument(TRUE, <<>>, x[1], <<>>, x[2]) :
     x \in {y \in SeqsUpTo(OptimizeHeadKids, 1) \X SeqsUpTo(OptimizeBodyKids, MaxOptimizeKids) :
              /\ NoAdjacentText(y[2])
              /\ Len(y[1]) + Len(y[2]) <= MaxOptimizeKids}}

OptionNames ==
  {"collapse_attribute_whitespace", "collapse_whitespace", "deduplicate_attribute_values",
   "remove_comments", "remove_empty_attributes", "minify_json", "minify_svg",
   "remove_redundant_attributes", "collapse_boolean_attributes",
   "normalize_attribute_values", "sort_attributes_with_lists"}

\* every OptimizeOptions (optimize.rs:12-35); minify_svg is not read for a
\* document without an svg element and keeps its default
OptimizeOptions == {o \in [OptionNames -> BOOLEAN] : o.minify_svg}

InitOptimize ==
  \E doc \in OptimizeDocuments, o \in OptimizeOptions :
    /\ SetLinksInit(doc.L)
    /\ data = doc.D
    /\ allocated = Len(doc.D)
    /\ given = [L |-> doc.L, D |-> doc.D]
    /\ deps = <<>> /\ assets = <<>> /\ errors = <<>>
    /\ has_module_scripts = FALSE
    /\ opts = o
    /\ origins = [deps |-> <<>>, assets |-> <<>>]
    /\ out = <<>>
    /\ result = [kind |-> "none"]
    /\ calls = 0
    /\ misused = FALSE
    /\ IdleWalk
    /\ pc = "optimize"
    /\ IdleCore
    /\ IdleSerializer

OptimizeFrame ==
  UNCHANGED <<coreVars, serializerVars, calls, misused, walkVars, deps, assets, errors, has_module_scripts, opts,
              origins, given>>

SetTree(T) == SetLinks(T.L) /\ data' = T.D /\ allocated' = Len(T.D)

\* optimize(&arena, dom, options) and serialize(&mut vec, dom, ...)
OptimizeOnce ==
  /\ pc = "optimize"
  /\ \E T \in {optimize([L |-> Links, D |-> data], opts)} :
       /\ SetTree(T)
       /\ \E w \in {serialize(Writer(-1), T.L, T.D, Document)} :
            /\ out' = w.out
            /\ result' = [kind |-> "code", first |-> w.out]
  /\ pc' = "again"
  /\ OptimizeFrame

\* optimize_html on the bytes the first call returned
OptimizeAgain ==
  /\ pc = "again"
  /\ \E T \in {optimize(parse_document(out), opts)} :
       /\ SetTree(T)
       /\ \E w \in {serialize(Writer(-1), T.L, T.D, Document)} :
            /\ out' = w.out
            /\ result' = [kind |-> "code", first |-> result.first, second |-> w.out]
  /\ pc' = "optimized twice"
  /\ OptimizeFrame

NextOptimize == OptimizeOnce \/ OptimizeAgain

SpecOptimize == InitOptimize /\ [][NextOptimize]_vars

\* C13 as stated: optimize on its own output, with the same options, gives
\* the bytes the first run gave, for every option set.
C13_OptimizeTwiceIsOptimizeOnce ==
  pc = "optimized twice" => result.second = result.first


\* the items of a space-separated attribute value are all different
NoRepeatedItem(value) ==
  \A i, j \in 1..Len(split_whitespace(value)) :
    split_whitespace(value)[i] = split_whitespace(value)[j] => i = j

str_300 == <<"3", "0", "0">>

\* C14 as stated: each option takes effect whatever the others are.  With
\* remove_redundant_attributes, the optimized tree has no canvas with
\* width=300 and no style with type=text/css; with
\* deduplicate_attribute_values, no class or rel attribute of it repeats an
\* item.
C14_OptionsTakeEffectAlone ==
  pc = "again" =>
    /\ opts.remove_redundant_attributes =>
         \A n \in NodesOf(data) :
           /\ IsElementNamed(data, n, {"canvas"}) => get_attribute(data[n], "", "width") # str_300
           /\ IsElementNamed(data, n, {"style"}) => get_attribute(data[n], "", "type") # str_text_css
    /\ opts.deduplicate_attribute_values =>
         \A n \in NodesOf(data) : \A k \in 1..Len(data[n].attrs) :
           data[n].attrs[k].local \in {"class", "rel"} => NoRepeatedItem(data[n].attrs[k].value)

(***************************************************************************)
(* package.rs: insert_bundle_references.  The rewriter and the tree are    *)
(* threaded as one record P with the fields L, D and import_map_node (the  *)
(* local of that name).  A BundleReference is a record with kind           *)
(* "StyleSheet" (href) or "Script" (src, module, nomodule); inline_bundles *)
(* is a function from keys to InlineBundle records (contents, module).     *)
(*                                                                         *)
(* serde_json is not part of the crate.  A JSON value is a string          *)
(* [kind |-> "string", s] or an object [kind |-> "object", entries], the   *)
(* entries a sequence of [key, value] in key order; to_string writes it    *)
(* without white space, and from_str reads back exactly the texts that     *)
(* to_string writes for the values of JsonValues.                          *)
(***************************************************************************)
chr_quote == "\""

JsonStr(s) == [kind |-> "string", s |-> s]
JsonObj(entries) == [kind |-> "object", entries |-> entries]
JsonEntry(key, value) == [key |-> key, value |-> value]

str_imports == <<"i", "m", "p", "o", "r", "t", "s">>

\* serde_json::to_string
RECURSIVE to_string(_)
RECURSIVE EntriesText(_)
EntriesText(entries) ==
  IF entries = <<>> THEN <<>>
  ELSE <<chr_quote>> \o entries[1].key \o <<chr_quote, ":">> \o to_string(entries[1].value)
       \o (IF Len(entries) > 1 THEN <<",">> ELSE <<>>) \o EntriesText(Tail(entries))

to_string(v) ==
  IF v.kind = "string" THEN <<chr_quote>> \o v.s \o <<chr_quote>>
  ELSE <<"{">> \o EntriesText(v.entries) \o <<"}">>

\* the maps from module specifiers to URLs the model draws import maps from
key_a == <<"a">>
key_b == <<"b">>
ImportMaps ==
  LET U == {val_a, val_a_b}
  IN  {<<>>} \cup {<<JsonEntry(k, JsonStr(u))>> : k \in {key_a, key_b}, u \in U}
        \cup {<<JsonEntry(key_a, JsonStr(u)), JsonEntry(key_b, JsonStr(v))>> : u \in U, v \in U}

\* the values whose text from_str reads
JsonValues ==
  {JsonObj(<<JsonEntry(str_imports, JsonObj(m))>>) : m \in ImportMaps}
    \cup {JsonObj(<<>>), JsonObj(<<JsonEntry(str_imports, JsonStr(val_a))>>), JsonStr(val_a)}

\* serde_json::from_str: kind "error" for Err
from_str(text) ==
  IF \E v \in JsonValues : to_string(v) = text
  THEN CHOOSE v \in JsonValues : to_string(v) = text
  ELSE [kind |-> "error"]

\* Map::append: every entry of `other` is inserted, replacing an entry with
\* the same key; the entries stay in key order
MapInsert(entries, e) ==
  SelectSeq(entries, LAMBDA x : str_lt(x.key, e.key)) \o <<e>>
    \o SelectSeq(entries, LAMBDA x : str_lt(e.key, x.key))

RECURSIVE MapAppend(_, _)
MapAppend(entries, other) ==
  IF other = <<>> THEN entries ELSE MapAppend(MapInsert(entries, Head(other)), Tail(other))

\* obj.get_mut("imports"): kind "none" for None
JsonGet(v, key) ==
  IF \E i \in 1..Len(v.entries) : v.entries[i].key = key
  THEN v.entries[CHOOSE i \in 1..Len(v.entries) : v.entries[i].key = key].value
  ELSE [kind |-> "none"]

JsonSet(v, key, value) ==
  [v EXCEPT !.entries = [i \in 1..Len(@) |-> IF @[i].key = key THEN JsonEntry(key, value) ELSE @[i]]]

StyleSheet(href) == [kind |-> "StyleSheet", href |-> href, src |-> <<>>, module |-> FALSE, nomodule |-> FALSE]
Script(src, module, nomodule) == [kind |-> "Script", href |-> <<>>, src |-> src, module |-> module, nomodule |-> nomodule]
InlineBundle(contents, module) == [contents |-> contents, module |-> module]

\* package.rs:73-77: an attribute whose value is a key of the map gets the
\* contents of that bundle
ReplaceKeyedValues(attrs, inline_bundles) ==
  [i \in 1..Len(attrs) |->
     IF attrs[i].value \in DOMAIN inline_bundles
     THEN [attrs[i] EXCEPT !.value = inline_bundles[attrs[i].value].contents]
     ELSE attrs[i]]

\* a rewrite that leaves the key marker on the element
insert_inline_bundle_keep_key(P, node, bundle, is_script) ==
  LET P2 == set_text_content(P, node, bundle.contents)
  IN  IF is_script /\ bundle.module THEN SetAttr(P2, node, "", "type", str_module) ELSE P2

\* package.rs:50-54 and 65-66
insert_inline_bundle(P, node, bundle, is_script) ==
  LET P1 == RemoveAttr(P, node, "", "data-parcel-key")
      P2 == set_text_content(P1, node, bundle.contents)
  IN  IF is_script /\ bundle.module THEN SetAttr(P2, node, "", "type", str_module) ELSE P2

\* the closure insert_bundle_references walks the tree with (package.rs:44-79)
package_visit(P, node, inline_bundles) ==
  LET d == P.D[node]
      key == get_attribute(d, "", "data-parcel-key")
      is_script == d.ns \in {"html", "svg"} /\ d.local = "script"
      is_style == d.ns \in {"html", "svg"} /\ d.local = "style"
      P1 == CASE is_script /\ key # Absent ->
                   IF key \in DOMAIN inline_bundles
                   THEN insert_inline_bundle(P, node, inline_bundles[key], TRUE)
                   ELSE P
               [] is_script /\ key = Absent ->
                   IF get_attribute(d, "", "type") = str_importmap
                   THEN [P EXCEPT !.import_map_node = node]
                   ELSE P
               [] is_style /\ key # Absent /\ key \in DOMAIN inline_bundles ->
                   insert_inline_bundle(P, node, inline_bundles[key], FALSE)
               [] OTHER -> P
  IN  IF d.kind # "Element" THEN P
      ELSE [P1 EXCEPT !.D[node].attrs = ReplaceKeyedValues(@, inline_bundles)]

\* dom.walk(visit) (arena.rs:171-178) with the closure of the rewriter
RECURSIVE PackageWalk(_, _, _)
PackageWalkFrom(P, w, inline_bundles) ==
  PackageWalk(P, WalkAfterVisit(P.L, w.stack, w.cur), inline_bundles)

PackageWalk(P, w, inline_bundles) ==
  IF w.cur = None THEN P
  ELSE PackageWalkFrom(package_visit(P, w.cur, inline_bundles), w, inline_bundles)

\* the element of one bundle reference (package.rs:84-105)
BundleElement(bundle) ==
  IF bundle.kind = "StyleSheet"
  THEN ElementData("html", "link",
                   <<Attr("", "rel", str_stylesheet), Attr("", "href", bundle.href)>>, 1)
  ELSE ElementData("html", "script",
                   (IF bundle.module THEN <<Attr("", "type", str_module)>> ELSE <<>>)
                     \o (IF bundle.nomodule
                         THEN <<Attr("", "nomodule", <<>>), Attr("", "defer", <<>>)>>
                         ELSE <<>>)
                     \o <<Attr("", "src", bundle.src)>>, 1)

\* arena.alloc(...) and head.prepend(node)
PrependNew(P, head, d) ==
  [Alloc(P, d) EXCEPT !.L = prepend(@, head, Len(P.D) + 1)]

\* for bundle in bundles.into_iter().rev() (package.rs:82-107)
RECURSIVE PrependBundles(_, _, _)
PrependBundles(P, head, bundles) ==
  IF bundles = <<>> THEN P
  ELSE PrependBundles(PrependNew(P, head, BundleElement(bundles[Len(bundles)])), head,
                      SubSeq(bundles, 1, Len(bundles) - 1))

\* package.rs:112-123: the import map is merged into the script the walk found
MergeImportMap(P, head, import_map) ==
  LET content == from_str(text_content(P.L, P.D, P.import_map_node))
      imports == JsonGet(content, str_imports)
      P1 == IF content.kind = "object" /\ imports.kind = "object"
            THEN set_text_content(P, P.import_map_node,
                   to_string(JsonSet(content, str_imports,
                                     JsonObj(MapAppend(imports.entries, import_map)))))
            ELSE P
  IN  [P1 EXCEPT !.L = prepend(@, head, P.import_map_node)]

\* package.rs:125-132: a new importmap script
NewImportMap(P, head, import_map) ==
  LET P1 == Alloc(P, ElementData("html", "script", <<Attr("", "type", str_importmap)>>, 1))
      node == Len(P.D) + 1
      P2 == set_text_content(P1, node,
              to_string(JsonObj(<<JsonEntry(str_imports, JsonObj(import_map))>>)))
  IN  [P2 EXCEPT !.L = prepend(@, head, node)]

\* package.rs:81-135
insert_into_head(P, head, bundles, import_map) ==
  LET P1 == PrependBundles(P, head, bundles)
  IN  IF import_map = <<>> THEN P1
      ELSE IF P1.import_map_node # None THEN MergeImportMap(P1, head, import_map)
      ELSE NewImportMap(P1, head, import_map)

\* insert_bundle_references (package.rs:30-136)
insert_bundle_references(T, bundles, inline_bundles, import_map) ==
  LET P == PackageWalk([L |-> T.L, D |-> T.D, import_map_node |-> None],
                       [cur |-> Document, stack |-> <<>>], inline_bundles)
      head == find(P.L, P.D, Document, "html", "head")
  IN  IF head # None THEN insert_into_head(P, head, bundles, import_map) ELSE P

(***************************************************************************)
(* SpecPackage: insert_bundle_references on the tree of a document with    *)
(* inline scripts and styles that carry a data-parcel-key, a style         *)
(* attribute replaced by its key, and an importmap script, for any bundle  *)
(* references, inline bundles and import map.                              *)
(***************************************************************************)
key_k == <<"k">>
key_j == <<"j">>
txt_c == <<"c">>
txt_d == <<"d">>

ImportMapScript(text) ==
  Kid(ElementData("html", "script", <<Attr("", "type", str_importmap)>>, 1),
      <<Kid(TextData(text, 1), <<>>)>>)

PackageHeadKids ==
  { Kid(ElementData("html", "meta", <<Attr("", "charset", val_a)>>, 1), <<>>),
    ImportMapScript(to_string(JsonObj(<<JsonEntry(str_imports,
                                                  JsonObj(<<JsonEntry(key_a, JsonStr(val_a))>>))>>))),
    ImportMapScript(to_string(JsonObj(<<>>))),
    Kid(ElementData("html", "script", <<Attr("", "data-parcel-key", key_k)>>, 1),
        <<Kid(TextData(txt_a, 1), <<>>)>>),
    Kid(ElementData("html", "style", <<Attr("", "data-parcel-key", key_k)>>, 1),
        <<Kid(TextData(txt_a, 1), <<>>)>>) }

PackageBodyKids ==
  { Kid(ElementData("html", "script",
                    <<Attr("", "type", val_a), Attr("", "data-parcel-key", key_k)>>, 1),
        <<Kid(TextData(txt_a, 1), <<>>)>>),
    Kid(ElementData("html", "script",
                    <<Attr("", "data-parcel-key", key_j), Attr("", "style", key_k)>>, 1),
        <<Kid(TextData(txt_a, 1), <<>>)>>),
    Kid(ElementData("html", "style", <<Attr("", "data-parcel-key", key_j)>>, 1),
        <<Kid(TextData(txt_a, 1), <<>>)>>),
    Kid(ElementData("html", "div", <<Attr("", "style", key_k)>>, 1), <<>>),
    ImportMapScript(to_string(JsonObj(<<JsonEntry(str_imports, JsonObj(<<>>))>>))),
    Kid(ElementData("html", "script", <<>>, 1), <<>>) }

\* children of head in one document
MaxHeadKids == 2

PackageDocuments ==
  {SerializeDocument(TRUE, <<>>, x[1], <<>>, x[2]) :
     x \in SeqsUpTo(PackageHeadKids, MaxHeadKids) \X SeqsUpTo(PackageBodyKids, 1)}

\* bundle references of one call
MaxBundles == 2

BundleLists ==
  SeqsUpTo({StyleSheet(val_a), Script(val_a_b, TRUE, TRUE)}, MaxBundles)

\* inline_bundles: no bundle, the bundle of key k (module or not), and with
\* it a bundle whose key is the word `module`
InlineBundleMaps ==
  { <<>> } \cup
  { [x \in {key_k} |-> InlineBundle(txt_c, m)] : m \in BOOLEAN } \cup
  { [x \in {key_k, str_module} |-> IF x = key_k THEN InlineBundle(txt_c, m)
                                   ELSE InlineBundle(txt_d, FALSE)] : m \in BOOLEAN }

InitPackage ==
  \E doc \in PackageDocuments, bundles \in BundleLists, ib \in InlineBundleMaps,
     import_map \in {<<>>, <<JsonEntry(key_a, JsonStr(val_a_b)), JsonEntry(key_b, JsonStr(val_a))>>} :
    /\ SetLinksInit(doc.L)
    /\ data = doc.D
    /\ allocated = Len(doc.D)
    /\ given = [L |-> doc.L, D |-> doc.D, bundles |-> bundles, inline_bundles |-> ib,
                import_map |-> import_map]
    /\ deps = <<>> /\ assets = <<>> /\ errors = <<>>
    /\ has_module_scripts = FALSE
    /\ opts = [scope_hoist |-> FALSE, supports_esm |-> FALSE, hmr |-> FALSE]
    /\ origins = [deps |-> <<>>, assets |-> <<>>]
    /\ out = <<>>
    /\ result = [kind |-> "none"]
    /\ calls = 0
    /\ misused = FALSE
    /\ IdleWalk
    /\ pc = "package"
    /\ IdleCore
    /\ IdleSerializer

\* insert_bundle_references(&arena, dom, bundles, inline_bundles, import_map)
InsertBundleReferences ==
  /\ pc = "package"
  /\ \E P \in {insert_bundle_references([L |-> Links, D |-> data], given.bundles,
                                        given.inline_bundles, given.import_map)} :
       SetTree(P)
  /\ pc' = "packaged"
  /\ UNCHANGED <<calls, misused, walkVars, deps, assets, errors, has_module_scripts, opts,
                 origins, given, ioVars>>
  /\ UNCHANGED <<coreVars, serializerVars>>

NextPackage == InsertBundleReferences

SpecPackage == InitPackage /\ [][NextPackage]_vars

\* the script and style elements of the given tree that carry a key
KeyedElements ==
  {n \in NodesOf(given.D) :
     /\ IsElementNamed(given.D, n, {"script", "style"})
     /\ has_attribute(given.D[n], "", "data-parcel-key")}

GivenKey(n) == get_attribute(given.D[n], "", "data-parcel-key")

\* what the rewriter leaves of an attribute value
KeyedValue(value) ==
  IF value \in DOMAIN given.inline_bundles THEN given.inline_bundles[value].contents
  ELSE value

\* the part of C16 about an element whose key is a key of the map, with the
\* value `type` is to hold
Rewritten(n, module_value) ==
  /\ text_content(Links, data, n) = given.inline_bundles[GivenKey(n)].contents
  /\ ~has_attribute(data[n], "", "data-parcel-key")
  /\ (given.D[n].local = "script" /\ given.inline_bundles[GivenKey(n)].module) =>
       get_attribute(data[n], "", "type") = module_value

\* C16 as stated: an element whose key is in the map holds the bundle's
\* contents, has no key and (a script of a module bundle) type=module; an
\* element whose key is not in the map keeps its children and every
\* attribute unchanged.
C16_KeyedElementsRewrittenOthersKept ==
  pc = "packaged" =>
    \A n \in KeyedElements :
      IF GivenKey(n) \in DOMAIN given.inline_bundles
      THEN Rewritten(n, str_module)
      ELSE /\ ChildList(Links, NodesOf(data), n) = ChildList(given.L, NodesOf(given.D), n)
           /\ data[n].attrs = given.D[n].attrs

\* C16, amended: the same, except that every attribute value that is itself
\* a key of the map is replaced by that bundle's contents: an element whose
\* key is not in the map keeps its children, its key and the names of its
\* attributes, and each value is kept unless it is a key of the map; the
\* `module` written into type is replaced likewise.
C16_KeyedElementsRewritten ==
  pc = "packaged" =>
    \A n \in KeyedElements :
      IF GivenKey(n) \in DOMAIN given.inline_bundles
      THEN Rewritten(n, KeyedValue(str_module))
      ELSE /\ ChildList(Links, NodesOf(data), n) = ChildList(given.L, NodesOf(given.D), n)
           /\ get_attribute(data[n], "", "data-parcel-key") = GivenKey(n)
           /\ Len(data[n].attrs) = Len(given.D[n].attrs)
           /\ \A i \in 1..Len(data[n].attrs) :
                data[n].attrs[i] = [given.D[n].attrs[i] EXCEPT !.value = KeyedValue(@)]

\* a script of a module bundle was rewritten, its old text replaced, beside
\* an element whose key is not in the map and whose style attribute is
C16_Witness ==
  /\ pc = "packaged"
  /\ \E n \in KeyedElements :
       /\ GivenKey(n) \in DOMAIN given.inline_bundles
       /\ given.D[n].local = "script"
       /\ given.inline_bundles[GivenKey(n)].module
       /\ text_content(given.L, given.D, n) # text_content(Links, data, n)
       /\ get_attribute(data[n], "", "type") = str_module
  /\ \E n \in KeyedElements :
       /\ GivenKey(n) \notin DOMAIN given.inline_bundles
       /\ data[n].attrs # given.D[n].attrs

\* the importmap scripts of the tree
ImportMapScripts ==
  {n \in NodesOf(data) :
     /\ IsElementNamed(data, n, {"script"})
     /\ get_attribute(data[n], "", "type") = str_importmap}

\* node n is the element of this bundle reference
IsBundleElement(n, bundle) ==
  IF bundle.kind = "StyleSheet"
  THEN /\ IsElementNamed(data, n, {"link"})
       /\ get_attribute(data[n], "", "rel") = str_stylesheet
       /\ get_attribute(data[n], "", "href") = bundle.href
  ELSE /\ IsElementNamed(data, n, {"script"})
       /\ get_attribute(data[n], "", "src") = bundle.src

\* the children of head are: `first` importmap scripts (0 or 1), the
\* elements of the bundle references in the order given, and the children
\* head had before, in their order
HeadOrder(first) ==
  LET head == find(given.L, given.D, Document, "html", "head")
      after == ChildList(Links, NodesOf(data), head)
      before == ChildList(given.L, NodesOf(given.D), head)
      n == Len(given.bundles)
  IN  /\ Len(after) >= first + n
      /\ first = 1 => after[1] \in ImportMapScripts
      /\ \A i \in 1..n : IsBundleElement(after[first + i], given.bundles[i])
      /\ SubSeq(after, first + n + 1, Len(after))
           = SelectSeq(before, LAMBDA c : first = 0 \/ c # after[1])

\* C17 as stated: after the rewriter ran, for every list of bundle
\* references and every import map, empty or not, the children of head are
\* the importmap script if the tree has one, then one link or script per
\* bundle reference in the order given, then the children head had before.
C17_HeadOrder ==
  pc = "packaged" => HeadOrder(IF ImportMapScripts # {} THEN 1 ELSE 0)

\* the elements set_text_content was called on by the walk of the rewriter
RewrittenElements == {n \in KeyedElements : GivenKey(n) \in DOMAIN given.inline_bundles}

\* C20 as stated: after set_text_content(n, s), n has exactly one child, a
\* Text node with contents s whose parent is n and which has no siblings,
\* and every former child of n has no parent and no sibling links.
C20_SetTextContentKeepsTreeShape ==
  pc = "packaged" =>
    \A n \in RewrittenElements :
      /\ first_child[n] # None
      /\ first_child[n] = last_child[n]
      /\ data[first_child[n]] = TextData(given.inline_bundles[GivenKey(n)].contents, 0)
      /\ parent[first_child[n]] = n
      /\ next_sibling[first_child[n]] = None
      /\ previous_sibling[first_child[n]] = None
      /\ {c \in NodesOf(data) : parent[c] = n} = {first_child[n]}
      /\ \A c \in Range(ChildList(given.L, NodesOf(given.D), n)) :
           parent[c] = None /\ next_sibling[c] = None /\ previous_sibling[c] = None

(***************************************************************************)
(* SpecVisitorWalk: walk (arena.rs:171-178) with a visitor that changes    *)
(* the tree.  When the visitor is called on the node `at` it allocates a   *)
(* node and links it in beside `target`, which is `at` or an ancestor of   *)
(* `at`: as the next sibling of target ("after") or before it ("before").  *)
(* The tree and the plan of the visitor are kept in `given`.               *)
(***************************************************************************)
\* nodes of the tree the visitor is walked over
MaxWalkNodes == 5

\* the tree in which node i + 1 was appended to the node parents[i]
RECURSIVE AppendedTree(_, _)
AppendedTree(parents, k) ==
  IF k = 0 THEN [D |-> <<DocumentData>>, L |-> EmptyLinks({Document})]
  ELSE SinkAppendNode(AppendedTree(parents, k - 1), parents[k],
                      ElementData("html", "div", <<>>, 1))

WalkTrees ==
  UNION {{AppendedTree(parents, k) :
            parents \in {q \in [1..k -> 1..k] : \A i \in 1..k : q[i] <= i}} :
         k \in 1..(MaxWalkNodes - 1)}

\* the visitor links the new node in as the next sibling of target: before
\* the node that follows target, or as the last child of target's parent
link_as_next_sibling(L, target, new) ==
  IF L.next_sibling[target] # None THEN insert_before(L, L.next_sibling[target], new)
  ELSE append(L, L.parent[target], new)

\* the visitor of this walk
inserting_visitor(T, node, plan) ==
  IF node # plan.at THEN T
  ELSE LET T1 == Alloc(T, ElementData("html", "div", <<>>, 0))
       IN  [T1 EXCEPT !.L = IF plan.op = "after"
                             THEN link_as_next_sibling(@, plan.target, Len(T1.D))
                             ELSE insert_before(@, plan.target, Len(T1.D))]

InitVisitorWalk ==
  \E T \in WalkTrees :
    \E at \in NodesOf(T.D) \ {Document}, op \in {"after", "before"} :
      \E target \in {at} \cup (Ancestors(T.L, NodesOf(T.D), at) \ {Document}) :
        /\ SetLinksInit(T.L)
        /\ data = T.D
        /\ allocated = Len(T.D)
        /\ given = [L |-> T.L, D |-> T.D, at |-> at, op |-> op, target |-> target]
        /\ deps = <<>> /\ assets = <<>> /\ errors = <<>>
        /\ has_module_scripts = FALSE
        /\ opts = [scope_hoist |-> FALSE, supports_esm |-> FALSE, hmr |-> FALSE]
        /\ origins = [deps |-> <<>>, assets |-> <<>>]
        /\ out = <<>>
        /\ result = [kind |-> "none"]
        /\ calls = 0
        /\ misused = FALSE
        /\ cur = Document
        /\ stack = <<>>
        /\ visited = <<>>
        /\ pc = "walk"
        /\ IdleCore
        /\ IdleSerializer

\* one call of walk: visit(self), `let mut node = self.first_child.get()`,
\* and the loops up to the next call
VisitAndInsert ==
  /\ pc = "walk"
  /\ cur # None
  /\ visited' = Append(visited, cur)
  /\ \E T \in {inserting_visitor([L |-> Links, D |-> data], cur, given)} :
       /\ SetTree(T)
       /\ \E w \in {WalkAfterVisit(T.L, stack, cur)} :
            /\ cur' = w.cur
            /\ stack' = w.stack
  /\ UNCHANGED <<calls, misused, collectorVars, pc>>
  /\ UNCHANGED <<coreVars, serializerVars>>

NextVisitorWalk == VisitAndInsert \/ WalkReturn

SpecVisitorWalk == InitVisitorWalk /\ [][NextVisitorWalk]_vars

\* the node the visitor allocated
Inserted == Len(given.D) + 1

\* C19 as stated: a node that the visitor, while visiting N or a descendant
\* of N, links in as the next sibling of N is visited later in the same
\* walk, after the subtree of N; a node inserted before the cursor is not
\* visited.
C19_InsertedNextSiblingIsVisited ==
  pc = "walked" =>
    /\ given.op = "after" =>
         /\ VisitIndex(Inserted) # 0
         /\ \A n \in Subtree(given.L, NodesOf(given.D), given.target) :
              VisitIndex(n) < VisitIndex(Inserted)
    /\ given.op = "before" => VisitIndex(Inserted) = 0

\* C19, amended: walk reads a node's next_sibling before it calls the
\* visitor on that node.  A node that the visitor, while visiting N or a
\* descendant of N, links in as the next sibling of N or before N is not
\* visited in this walk: the visitor is called on the nodes the tree had when
\* the walk began, once each, in their document order.
C19_NextSiblingReadBeforeVisit ==
  pc = "walked" =>
    /\ VisitIndex(Inserted) = 0
    /\ visited = PreOrder(given.L, NodesOf(given.D), Document, Len(given.D))

\* a finished walk in which the visitor, called on a descendant of N, linked
\* the new node in as the next sibling of N, N having had a next sibling
C19_Witness ==
  /\ pc = "walked"
  /\ given.op = "after"
  /\ given.at # given.target
  /\ given.L.next_sibling[given.target] # None
  /\ next_sibling[given.target] = Inserted
  /\ parent[Inserted] = parent[given.target]

(***************************************************************************)
(* lib.rs: transform_html, package_html and optimize_html, each as one     *)
(* call.  transform_html and package_html serialize with html5ever's       *)
(* serializer, driven by the Serialize impl of SerializableHandle          *)
(* (arena.rs:475-534); html5ever is not part of the crate, and its         *)
(* serializer is modelled as the HTML standard's fragment serialization:   *)
(* every tag written, every attribute value quoted and escaped.            *)
(***************************************************************************)
html5ever_write_attr(w, attr, elem_local) ==
  write_all(write_escaped(write_all(w, <<" ">> \o AttrPrefix(attr, elem_local)
                                        \o as_bytes(attr.local) \o <<"=", "\"">>),
                          attr.value, TRUE),
            <<"\"">>)

RECURSIVE html5ever_write_attrs(_, _, _)
html5ever_write_attrs(w, attrs, elem_local) ==
  IF attrs = <<>> THEN w
  ELSE CHOOSE r \in {html5ever_write_attrs(w1, Tail(attrs), elem_local) :
                       w1 \in {html5ever_write_attr(w, Head(attrs), elem_local)}} : TRUE

html5ever_start_elem(w, D, node) ==
  IF SerParent(w).ignore_children THEN Push(w, html_name_of(D[node]), TRUE)
  ELSE Push(write_all(html5ever_write_attrs(write_all(w, <<"<">> \o as_bytes(D[node].local)),
                                            D[node].attrs, D[node].local),
                      <<">">>),
            html_name_of(D[node]),
            D[node].ns = "html" /\ D[node].local \in VoidElements)

html5ever_end_elem(w, D, node) ==
  IF SerParent(w).ignore_children THEN Pop(w)
  ELSE write_all(Pop(w), <<"<","/">> \o as_bytes(D[node].local) \o <<">">>)

\* SerializableHandle::serialize (arena.rs:475-534): Open(node) calls the
\* serializer for the node and puts the node's children, then Close, at the
\* front of the queue
RECURSIVE serialize_handle(_, _, _, _)
RECURSIVE serialize_handles(_, _, _, _)
serialize_handles(w, L, D, child) ==
  IF child = None THEN w
  ELSE CHOOSE r \in {serialize_handles(w1, L, D, L.next_sibling[child]) :
                       w1 \in {serialize_handle(w, L, D, child)}} : TRUE

serialize_handle(w, L, D, node) ==
  CASE D[node].kind = "Element" ->
         html5ever_end_elem(serialize_handles(html5ever_start_elem(w, D, node), L, D,
                                              L.first_child[node]),
                            D, node)
    [] D[node].kind = "Doctype" -> write_doctype(w, D[node].contents)
    [] D[node].kind = "Text" -> write_text(w, D[node].contents)
    [] D[node].kind = "Comment" -> write_comment(w, D[node].contents)
    [] D[node].kind = "ProcessingInstruction" ->
         write_processing_instruction(w, as_bytes(D[node].target), D[node].contents)

\* html5ever::serialize::serialize(writer, &SerializableHandle(dom),
\* SerializeOpts::default()): the traversal scope is ChildrenOnly
html5ever_serialize(w, L, D, dom) == serialize_handles(w, L, D, L.first_child[dom])

\* dom.walk(visit) (arena.rs:171-178) with the closure of the collector
RECURSIVE CollectWalk(_, _, _)
CollectWalkFrom(S, w, opt) == CollectWalk(S, WalkAfterVisit(S.L, w.stack, w.cur), opt)

CollectWalk(S, w, opt) ==
  IF w.cur = None THEN S
  ELSE CHOOSE R \in {CollectWalkFrom(S1, w, opt) :
                       S1 \in {visitor([S EXCEPT !.returned = FALSE], w.cur, opt)}} : TRUE

\* DependencyCollector::new (dependencies.rs:101) and the tree it is given
NewCollector(T) ==
  [L |-> T.L, D |-> T.D, deps |-> <<>>, assets |-> <<>>, errors |-> <<>>,
   has_module_scripts |-> FALSE, dep_origin |-> <<>>, asset_origin |-> <<>>,
   returned |-> FALSE]

\* err.to_string() of the error write_all returns
str_write_failed == <<"failed to write whole buffer">>

\* transform_html (lib.rs:59-90), its Vec standing in a writer with `room`
transform_html(S, w) ==
  [kind |-> "TransformResult", code |-> w.out, dependencies |-> S.deps, assets |-> S.assets,
   errors |-> IF w.failed THEN Append(S.errors, Error(str_write_failed, 0)) ELSE S.errors]

\* lib.rs:157-165 and lib.rs:220-223: `.map_err(|_| ())?` and Ok(PackageResult)
package_result(w) ==
  IF w.failed THEN [kind |-> "Err"] ELSE [kind |-> "Ok", code |-> w.out]

(***************************************************************************)
(* SpecLibrary: one call of transform_html, package_html or optimize_html, *)
(* from the tree the parser built for the document on, with a writer that  *)
(* takes `room` bytes and then fails (room = -1: the Vec of the code,      *)
(* which takes them all).                                                  *)
(***************************************************************************)
\* bytes the failing writer takes
MaxRoom == 6

Rooms == {-1} \cup 0..MaxRoom

InitLibrary ==
  \E call \in {"transform", "package", "optimize"}, doc \in OptimizeDocuments, room \in Rooms,
     o \in {x \in OptimizeOptions : \A a, b \in OptionNames \ {"minify_svg"} : x[a] = x[b]} :
    /\ SetLinksInit(doc.L)
    /\ data = doc.D
    /\ allocated = Len(doc.D)
    /\ given = [L |-> doc.L, D |-> doc.D, call |-> call, room |-> room]
    /\ deps = <<>> /\ assets = <<>> /\ errors = <<>>
    /\ has_module_scripts = FALSE
    /\ opts = o @@ [scope_hoist |-> o.remove_comments, supports_esm |-> o.remove_comments,
                    hmr |-> o.remove_comments]
    /\ origins = [deps |-> <<>>, assets |-> <<>>]
    /\ out = <<>>
    /\ result = [kind |-> "none"]
    /\ calls = 0
    /\ misused = FALSE
    /\ IdleWalk
    /\ pc = "call"
    /\ IdleCore
    /\ IdleSerializer

LibraryFrame == UNCHANGED <<coreVars, serializerVars, calls, misused, walkVars, opts, given>>

\* transform_html (lib.rs:64-89): collect_dependencies (the walk, the
\* dependencies of the assets, the HMR script), serialize, the result
TransformHtml ==
  /\ pc = "call" /\ given.call = "transform"
  /\ \E S1 \in {CollectWalk(NewCollector([L |-> Links, D |-> data]),
                             [cur |-> Document, stack |-> <<>>], opts)} :
     \E S2 \in {AssetDeps(S1, 1)} :
     \E S \in {inject_hmr(S2, Document, opts)} :
       /\ SetCollectorState(S)
       /\ \E w \in {html5ever_serialize(Writer(given.room), S.L, S.D, Document)} :
            /\ out' = w.out
            /\ result' = transform_html(S, w)
  /\ pc' = "returned"
  /\ LibraryFrame

\* package_html (lib.rs:149-165), without bundles
PackageHtml ==
  /\ pc = "call" /\ given.call = "package"
  /\ \E P \in {insert_bundle_references([L |-> Links, D |-> data], <<>>, <<>>, <<>>)} :
       /\ SetTree(P)
       /\ \E w \in {html5ever_serialize(Writer(given.room), P.L, P.D, Document)} :
            /\ out' = w.out
            /\ result' = package_result(w)
  /\ pc' = "returned"
  /\ UNCHANGED <<deps, assets, errors, has_module_scripts, origins>>
  /\ LibraryFrame

\* optimize_html (lib.rs:218-223)
OptimizeHtml ==
  /\ pc = "call" /\ given.call = "optimize"
  /\ \E T \in {optimize([L |-> Links, D |-> data], opts)} :
       /\ SetTree(T)
       /\ \E w \in {serialize(Writer(given.room), T.L, T.D, Document)} :
            /\ out' = w.out
            /\ result' = package_result(w)
  /\ pc' = "returned"
  /\ UNCHANGED <<deps, assets, errors, has_module_scripts, origins>>
  /\ LibraryFrame

NextLibrary == TransformHtml \/ PackageHtml \/ OptimizeHtml

SpecLibrary == InitLibrary /\ [][NextLibrary]_vars

\* the bytes the call writes into a writer that takes them all
FullOutput ==
  IF given.call = "optimize" THEN serialize(Writer(-1), Links, data, Document).out
  ELSE html5ever_serialize(Writer(-1), Links, data, Document).out

\* the writer failed: it had room for fewer bytes than the call writes
WriteFailed == given.room >= 0 /\ Len(FullOutput) > given.room

GivenImportMapScripts ==
  {n \in NodesOf(given.D) :
     /\ IsElementNamed(given.D, n, {"script"})
     /\ get_attribute(given.D[n], "", "type") = str_importmap}

\* the imports object of the JSON text of script n: kind "none" when the
\* text is not a JSON object or has no imports object
ImportsOf(L, D, n) ==
  LET content == from_str(text_content(L, D, n))
      imports == IF content.kind = "object" THEN JsonGet(content, str_imports)
                 ELSE [kind |-> "none"]
  IN  IF imports.kind = "object" THEN imports ELSE [kind |-> "none"]

HoldsEntry(imports, e) == imports.kind = "object" /\ e \in Range(imports.entries)

GivenKeys == {given.import_map[i].key : i \in 1..Len(given.import_map)}

\* script n holds the given import map merged into the entries it had
MergedInto(n) ==
  LET earlier == ImportsOf(given.L, given.D, n)
      now == ImportsOf(Links, data, n)
  IN  /\ \A e \in Range(given.import_map) : HoldsEntry(now, e)
      /\ earlier.kind = "object" =>
           \A e \in Range(earlier.entries) : e.key \notin GivenKeys => HoldsEntry(now, e)

\* C21 as stated: after the rewriter ran with a non-empty import map on a
\* tree with a head: if the tree had an importmap script, no second one is
\* created and that script's imports object holds every entry of the given
\* import map (the given value winning on an equal key) together with its
\* earlier entries; if it had none, exactly one importmap script is created
\* and its imports object equals the given import map.
C21_ImportMapMergedOrCreated ==
  (pc = "packaged" /\ given.import_map # <<>>) =>
    IF GivenImportMapScripts # {}
    THEN /\ ImportMapScripts = GivenImportMapScripts
         /\ \E n \in GivenImportMapScripts : MergedInto(n)
    ELSE /\ Cardinality(ImportMapScripts) = 1
         /\ \A n \in ImportMapScripts :
              /\ n > Len(given.D)
              /\ ImportsOf(Links, data, n) = JsonObj(given.import_map)

\* the same for the trees whose importmap scripts all hold a JSON object
\* with an imports object
C21_MergedWhenImportsObject ==
  (\A n \in GivenImportMapScripts : ImportsOf(given.L, given.D, n).kind = "object")
    => C21_ImportMapMergedOrCreated

\* a merge that replaced a value and kept nothing else / a created script
C21_SeenMerge ==
  /\ pc = "packaged" /\ given.import_map # <<>>
  /\ \E n \in GivenImportMapScripts :
       /\ ImportsOf(given.L, given.D, n).kind = "object"
       /\ ImportsOf(given.L, given.D, n) # ImportsOf(Links, data, n)
       /\ MergedInto(n)

(***************************************************************************)
(* SpecPackageTrees: insert_bundle_references on the trees the two         *)
(* callers give it: package_html (lib.rs:143-166) the tree of an HTML      *)
(* document, which has a head, and package_svg (lib.rs:168-193) the tree   *)
(* of an SVG document, whose root element is svg and which has no head.    *)
(***************************************************************************)
SvgKids ==
  { Kid(ElementData("svg", "script", <<Attr("", "data-parcel-key", key_k)>>, 1),
        <<Kid(TextData(txt_a, 1), <<>>)>>),
    Kid(ElementData("svg", "style", <<Attr("", "data-parcel-key", key_k)>>, 1),
        <<Kid(TextData(txt_a, 1), <<>>)>>),
    Kid(ElementData("svg", "script", <<Attr("", "type", str_importmap)>>, 1),
        <<Kid(TextData(to_string(JsonObj(<<JsonEntry(str_imports, JsonObj(<<>>))>>)), 1), <<>>)>>),
    Kid(ElementData("svg", "rect", <<Attr("", "style", key_k)>>, 1), <<>>) }

\* children of the svg element in one document
MaxSvgKids == 2

SvgDocument(kids) ==
  LET T0 == [D |-> <<DocumentData>>, L |-> EmptyLinks({Document})]
  IN  AppendKidSeq(SinkAppendNode(T0, Document, ElementData("svg", "svg", <<>>, 1)),
                   Len(T0.D) + 1, kids)

\* the head children of PackageHeadKids and an import map that is not JSON
PackageTreeHeadKids == PackageHeadKids \cup {ImportMapScript(txt_a)}

PackageTrees ==
  {SvgDocument(kids) : kids \in SeqsUpTo(SvgKids, MaxSvgKids)}
    \cup {SerializeDocument(TRUE, <<>>, kids, <<>>, <<>>) : kids \in SeqsUpTo(PackageTreeHeadKids, 1)}

InitPackageTrees ==
  \E doc \in PackageTrees, bundles \in BundleLists, ib \in InlineBundleMaps,
     import_map \in {<<>>, <<JsonEntry(key_a, JsonStr(val_a_b)), JsonEntry(key_b, JsonStr(val_a))>>} :
    /\ SetLinksInit(doc.L)
    /\ data = doc.D
    /\ allocated = Len(doc.D)
    /\ given = [L |-> doc.L, D |-> doc.D, bundles |-> bundles, inline_bundles |-> ib,
                import_map |-> import_map]
    /\ deps = <<>> /\ assets = <<>> /\ errors = <<>>
    /\ has_module_scripts = FALSE
    /\ opts = [scope_hoist |-> FALSE, supports_esm |-> FALSE, hmr |-> FALSE]
    /\ origins = [deps |-> <<>>, assets |-> <<>>]
    /\ out = <<>>
    /\ result = [kind |-> "none"]
    /\ calls = 0
    /\ misused = FALSE
    /\ IdleWalk
    /\ pc = "package"
    /\ IdleCore
    /\ IdleSerializer

SpecPackageTrees == InitPackageTrees /\ [][NextPackage]_vars

\* the nodes of the tree: those the walk from the Document reaches
AttachedNodes == Range(PreOrder(Links, NodesOf(data), Document, Len(data)))

\* the number of references of the list that are equal to `bundle`
CountOf(bundle) == Cardinality({i \in 1..Len(given.bundles) : given.bundles[i] = bundle})

\* every reference has its elements in the tree, as many as the list has it
BundlesRepresented ==
  \A bundle \in Range(given.bundles) :
    Cardinality({n \in AttachedNodes : n > Len(given.D) /\ IsBundleElement(n, bundle)})
      = CountOf(bundle)

\* every entry of the import map is in the imports of an importmap script
ImportMapRepresented ==
  \A e \in Range(given.import_map) :
    \E n \in ImportMapScripts \cap AttachedNodes : HoldsEntry(ImportsOf(Links, data, n), e)

GivenHead == find(given.L, given.D, Document, "html", "head")

\* C22 as stated: for every input tree, with or without an HTML head, after
\* the rewriter ran each given bundle reference is represented by exactly
\* one link or script element of the tree and each entry of a non-empty
\* import map is present in an importmap script.
C22_NothingDropped ==
  pc = "packaged" => BundlesRepresented /\ ImportMapRepresented

\* with a head every bundle reference is represented
C22_BundlesKeptWithHead ==
  (pc = "packaged" /\ GivenHead # None) => BundlesRepresented

\* without a head the rewriter adds no element at all and changes no
\* importmap script
C22_NothingAddedWithoutHead ==
  (pc = "packaged" /\ GivenHead = None) =>
    /\ \A n \in NodesOf(data) : n > Len(given.D) => data[n].kind = "Text"
    /\ \A n \in ImportMapScripts :
         text_content(Links, data, n) = text_content(given.L, given.D, n)

(***************************************************************************)
(* The type and defer attributes of a script with a src (SpecCollect).     *)
(***************************************************************************)
\* the dependencies of the src of the scripts of the given tree (not of the
\* nomodule copies collect makes)
GivenScriptSrcDeps == {i \in ScriptSrcDeps : origins.deps[i].node <= Len(given.D)}

\* what collect left of type and defer on script n, whose dependency has the
\* output format `format`; `svg_defer` says whether a module script of the
\* SVG namespace gets defer too
TypeAndDefer(n, format, svg_defer) ==
  LET was_module == GivenAttr(n, "", "type") = str_module
      had_defer == has_attribute(given.D[n], "", "defer")
  IN  IF format # "Esmodule"
      THEN /\ ~has_attribute(data[n], "", "type")
           /\ has_attribute(data[n], "", "defer")
                <=> (had_defer \/ (was_module /\ (svg_defer \/ data[n].ns # "svg")))
      ELSE /\ get_attribute(data[n], "", "type") = str_module
           /\ has_attribute(data[n], "", "defer") <=> had_defer

\* C23 as stated: when collect does not choose EsModule for a script with a
\* non-empty src it removes type and, if the type was module, adds defer,
\* in the HTML and in the SVG namespace alike; when it chooses EsModule,
\* type=module is kept and no defer is added to the original.
C23_TypeStrippedDeferAddedAlike ==
  \A i \in GivenScriptSrcDeps : TypeAndDefer(origins.deps[i].node, deps[i].output_format, TRUE)

\* C23, amended: the same for a script of the HTML namespace; for a script
\* of the SVG namespace, for which EsModule is never chosen, type is removed
\* and no defer is added, whatever the type was.
C23_TypeStrippedDeferAddedInHtml ==
  \A i \in GivenScriptSrcDeps : TypeAndDefer(origins.deps[i].node, deps[i].output_format, FALSE)

\* a module script of the SVG namespace lost its type and got no defer, and
\* (in another run) one of the HTML namespace lost its type and got defer
C23_Witness ==
  \E i \in GivenScriptSrcDeps :
    LET n == origins.deps[i].node
    IN  /\ GivenAttr(n, "", "type") = str_module
        /\ deps[i].output_format = "Global"
        /\ ~has_attribute(data[n], "", "type")
        /\ data[n].ns = "svg"
        /\ ~has_attribute(data[n], "", "defer")

C23_WitnessHtml ==
  \E i \in GivenScriptSrcDeps :
    LET n == origins.deps[i].node
    IN  /\ GivenAttr(n, "", "type") = str_module
        /\ deps[i].output_format = "Global"
        /\ ~has_attribute(data[n], "", "type")
        /\ data[n].ns = "html"
        /\ has_attribute(data[n], "", "defer")

(***************************************************************************)
(* The href of an HTML a element (SpecCollect).                            *)
(***************************************************************************)
\* the a elements of the HTML namespace with an href that collect visited
VisitedAnchors ==
  {n \in GivenElements \cap Range(visited) :
     /\ given.D[n].ns = "html" /\ given.D[n].local = "a"
     /\ has_attribute(given.D[n], "", "href")}

\* the part of href before the first '#'
PathPart(href) ==
  IF \E i \in 1..Len(href) : href[i] = "#"
  THEN SubSeq(href, 1, (CHOOSE i \in 1..Len(href) : href[i] = "#" /\ \A j \in 1..(i - 1) : href[j] # "#") - 1)
  ELSE href

HrefDeps(n) == {i \in DepIndices : origins.deps[i] = Origin("attr", n, "", "href")}

\* the a element n has its dependency and its placeholder if `expected`, and
\* its href unchanged and no dependency otherwise
AnchorDependencyIff(n, expected) ==
  IF expected
  THEN /\ Cardinality(HrefDeps(n)) = 1
       /\ \A i \in HrefDeps(n) :
            /\ deps[i].href = GivenAttr(n, "", "href")
            /\ deps[i].needs_stable_name
            /\ deps[i].priority = "Lazy"
            /\ get_attribute(data[n], "", "href") = deps[i].placeholder
            /\ deps[i].placeholder # GivenAttr(n, "", "href")
  ELSE /\ HrefDeps(n) = {}
       /\ get_attribute(data[n], "", "href") = GivenAttr(n, "", "href")

\* C24 as stated: for an HTML a element with an href, collect emits a
\* dependency (needs-stable-name, Lazy) and rewrites href to its placeholder
\* exactly when href is non-empty, does not start with '#', and the path
\* part of href before the '#' contains a '.'; otherwise href is unchanged
\* and there is no dependency.
C24_AnchorDependencyIffDot ==
  \A n \in VisitedAnchors :
    LET href == GivenAttr(n, "", "href")
    IN  AnchorDependencyIff(n, /\ href # <<>>
                               /\ href[1] # "#"
                               /\ \E i \in 1..Len(PathPart(href)) : PathPart(href)[i] = ".")

\* C24, amended: ... exactly when href is non-empty, does not start with
\* '#', and the path part of href before the '#' contains a '.' after its
\* first character; otherwise href is unchanged and there is no dependency.
C24_AnchorDependencyIffDotAfterFirst ==
  \A n \in VisitedAnchors :
    LET href == GivenAttr(n, "", "href")
    IN  AnchorDependencyIff(n, /\ href # <<>>
                               /\ href[1] # "#"
                               /\ \E i \in 2..Len(PathPart(href)) : PathPart(href)[i] = ".")

\* an a element whose path starts with its only '.' was visited and kept
\* its href
C24_Witness ==
  \E n \in VisitedAnchors :
    LET href == GivenAttr(n, "", "href")
    IN  /\ href # <<>> /\ href[1] = "." /\ ~(\E i \in 2..Len(href) : href[i] \in {".", "#"})
        /\ HrefDeps(n) = {}
        /\ get_attribute(data[n], "", "href") = href

\* a dependency for p.html#s, none for p#.s
C24_WitnessFragment ==
  /\ \E n \in VisitedAnchors : GivenAttr(n, "", "href") = in_page_frag_dot /\ HrefDeps(n) = {}

(***************************************************************************)
(* SpecSrcset: collect on a document with one img (srcset) or one link     *)
(* (imagesrcset) whose attribute lists candidates with width descriptors   *)
(* up to the largest i64.                                                  *)
(***************************************************************************)
\* the widths of the candidates: decimal digits of a positive integer that
\* fits an i64, with whether it fits a u32 (<<>>: no descriptor)
SrcsetWidths ==
  { [digits |-> <<>>, u32 |-> TRUE],
    [digits |-> <<"1">>, u32 |-> TRUE],
    [digits |-> <<"4", "8", "0">>, u32 |-> TRUE],
    [digits |-> <<"6", "5", "5", "3", "6">>, u32 |-> TRUE],
    [digits |-> <<"4", "2", "9", "4", "9", "6", "7", "2", "9", "5">>, u32 |-> TRUE],
    [digits |-> <<"4", "2", "9", "4", "9", "6", "7", "2", "9", "6">>, u32 |-> FALSE],
    [digits |-> <<"4", "2", "9", "4", "9", "6", "7", "2", "9", "7">>, u32 |-> FALSE],
    [digits |-> <<"9", "2", "2", "3", "3", "7", "2", "0", "3", "6", "8", "5", "4", "7", "7", "5", "8", "0", "7">>,
     u32 |-> FALSE] }

SrcsetCandidates == {[url |-> u, width |-> w] : u \in {in_x_png, in_y_png}, w \in SrcsetWidths}

\* candidates of one attribute
MaxCandidates == 2

\* the text of one candidate and of the attribute
CandidateText(url, digits) == url \o (IF digits = <<>> THEN <<>> ELSE <<" ">> \o digits \o <<"w">>)

SrcsetText(cands) ==
  Concat([k \in 1..Len(cands) |->
            (IF k > 1 THEN <<",", " ">> ELSE <<>>)
              \o CandidateText(cands[k].url, cands[k].width.digits)])

SrcsetElement(local, name, cands) ==
  [ns |-> "html", local |-> local, attrs |-> <<Attr("", name, SrcsetText(cands))>>, kids |-> <<>>]

InitSrcset ==
  \E cands \in SeqsUpTo(SrcsetCandidates, MaxCandidates),
     el \in {<<"img", "srcset">>, <<"link", "imagesrcset">>} :
    \E doc \in {DocumentTree("html", <<SrcsetElement(el[1], el[2], cands)>>)} :
      /\ SetLinksInit(doc.L)
      /\ data = doc.D
      /\ allocated = Len(doc.D)
      /\ deps = <<>> /\ assets = <<>> /\ errors = <<>>
      /\ has_module_scripts = FALSE
      /\ opts = [scope_hoist |-> FALSE, supports_esm |-> FALSE, hmr |-> FALSE]
      /\ origins = [deps |-> <<>>, assets |-> <<>>]
      /\ given = [L |-> doc.L, D |-> doc.D, candidates |-> cands, name |-> el[2]]
      /\ out = <<>>
      /\ result = [kind |-> "none"]
      /\ calls = 0
      /\ misused = FALSE
      /\ cur = Document
      /\ stack = <<>>
      /\ visited = <<>>
      /\ pc = "collect"
      /\ IdleCore
      /\ IdleSerializer

SpecSrcset == InitSrcset /\ [][NextCollect]_vars

\* the element that carries the attribute
SrcsetNode == CHOOSE n \in GivenElements : has_attribute(given.D[n], "", given.name)

\* the attribute holds, candidate by candidate, the placeholder of the
\* dependency and the width of the input
SrcsetRewritten ==
  /\ Len(deps) = Len(given.candidates)
  /\ \A k \in 1..Len(deps) :
       /\ origins.deps[k] = Origin("srcset", SrcsetNode, "", given.name)
       /\ deps[k].href = given.candidates[k].url
       /\ deps[k].priority = "Lazy"
       /\ deps[k].placeholder # deps[k].href
  /\ Len(deps) = Len(given.candidates) =>
       get_attribute(data[SrcsetNode], "", given.name)
         = SrcsetText([k \in 1..Len(deps) |->
                         [url |-> deps[k].placeholder, width |-> given.candidates[k].width]])

\* C25 as stated: collect emits one Lazy dependency per candidate and
\* rewrites the attribute to the same candidates in the same order, each
\* with its URL replaced by its placeholder and with a width descriptor Nw
\* carrying the same integer N as the input, for every positive N that fits
\* 64 bits.
C25_SrcsetKeepsWidths ==
  Collected => SrcsetRewritten

\* the same when every width of the input fits 32 bits
C25_SrcsetKeepsWidthsU32 ==
  (Collected /\ \A k \in 1..Len(given.candidates) : given.candidates[k].width.u32)
    => SrcsetRewritten

(***************************************************************************)
(* The start tag of body (SpecSerialize).                                  *)
(***************************************************************************)
GivenBody == find(given.L, given.D, Document, "html", "body")

BodyStartTagWritten == IndexOf(out, 1, <<"<", "b", "o", "d", "y">>) <= Len(out)

\* the condition under which the start tag of body may be omitted
BodyStartTagOmissible ==
  LET first == given.L.first_child[GivenBody]
  IN  /\ given.D[GivenBody].attrs = <<>>
      /\ \/ first = None
         \/ /\ given.D[first].kind # "Comment"
            /\ ~(given.D[first].kind = "Text" /\ given.D[first].contents # <<>>
                 /\ is_ascii_whitespace(given.D[first].contents[1]))
            /\ ~IsElementNamed(given.D, first, HeadOnlyElements)

\* C26 as stated: serialize omits the start tag of body only if body has no
\* attributes and is either empty or has a first child that is not a
\* comment, not text starting with whitespace and not a meta, noscript,
\* link, script, style or template element; in every other case the start
\* tag is written.
C26_BodyStartTagOmittedOnlyIf ==
  pc # "serialize" => (BodyStartTagWritten \/ BodyStartTagOmissible)

\* the same for the bodies whose first child is not one of those elements
C26_ExceptHeadOnlyFirstChild ==
  (pc # "serialize"
     /\ ~IsElementNamed(given.D, given.L.first_child[GivenBody], HeadOnlyElements))
    => (BodyStartTagWritten \/ BodyStartTagOmissible)

(***************************************************************************)
(* SpecOptimizeWalk: the walk of optimize (optimize.rs:71-467 called by    *)
(* arena.rs:171-178), one call of the closure at a time, on a body with    *)
(* comments, conditional comments, a meta element that optimize removes    *)
(* and elements it rewrites.                                               *)
(***************************************************************************)
txt_if == <<"[", "i", "f", " ", "I", "E", "]">>
txt_endif == <<"[", "e", "n", "d", "i", "f", "]">>

OptimizeWalkKids ==
  { Kid(CommentData(txt_a, 1), <<>>),
    Kid(CommentData(txt_if, 1), <<>>),
    Kid(CommentData(txt_endif, 1), <<>>),
    Kid(ElementData("html", "meta", <<>>, 1), <<>>),
    Kid(ElementData("html", "div", <<Attr("", "class", <<" ", "a", " ">>)>>, 1),
        <<Kid(CommentData(txt_a, 1), <<>>)>>),
    Kid(TextData(txt_a, 1), <<>>) }

\* children of body in one document
MaxWalkKids == 3

OptimizeWalkDocuments ==
  {SerializeDocument(TRUE, <<>>, <<>>, <<>>, kids) :
     kids \in {y \in SeqsUpTo(OptimizeWalkKids, MaxWalkKids) : NoAdjacentText(y)}}

InitOptimizeWalk ==
  \E doc \in OptimizeWalkDocuments,
     o \in {x \in OptimizeOptions : \A a, b \in OptionNames \ {"minify_svg", "remove_comments"} : x[a] = x[b]} :
    /\ SetLinksInit(doc.L)
    /\ data = doc.D
    /\ allocated = Len(doc.D)
    /\ given = [L |-> doc.L, D |-> doc.D]
    /\ deps = <<>> /\ assets = <<>> /\ errors = <<>>
    /\ has_module_scripts = FALSE
    /\ opts = o
    /\ origins = [deps |-> <<>>, assets |-> <<>>]
    /\ out = <<>>
    /\ result = [kind |-> "none"]
    /\ calls = 0
    /\ misused = FALSE
    /\ cur = Document
    /\ stack = <<>>
    /\ visited = <<>>
    /\ pc = "walk"
    /\ IdleCore
    /\ IdleSerializer

\* one call of walk: the closure of optimize on cur, then the loops up to
\* the next call
OptimizeVisit ==
  /\ pc = "walk"
  /\ cur # None
  /\ visited' = Append(visited, cur)
  /\ \E T \in {optimize_visit([L |-> Links, D |-> data], cur, opts)} :
       /\ SetTree(T)
       /\ \E w \in {WalkAfterVisit(T.L, stack, cur)} :
            /\ cur' = w.cur
            /\ stack' = w.stack
  /\ UNCHANGED <<calls, misused, collectorVars, pc>>
  /\ UNCHANGED <<coreVars, serializerVars>>

NextOptimizeWalk == OptimizeVisit \/ WalkReturn

SpecOptimizeWalk == InitOptimizeWalk /\ [][NextOptimizeWalk]_vars

\* the comments of the given tree that are not conditional comments
PlainComments ==
  {n \in NodesOf(given.D) :
     given.D[n].kind = "Comment" /\ given.D[n].contents \notin {txt_if, txt_endif}}

ConditionalComments ==
  {n \in NodesOf(given.D) :
     given.D[n].kind = "Comment" /\ given.D[n].contents \in {txt_if, txt_endif}}

\* the meta elements optimize detaches: those it leaves without attributes
RemovedMetas ==
  {n \in NodesOf(given.D) : IsElementNamed(given.D, n, {"meta"}) /\ data[n].attrs = <<>>}

Detached(n) ==
  /\ parent[n] = None /\ next_sibling[n] = None /\ previous_sibling[n] = None
  /\ \A m \in NodesOf(data) :
       first_child[m] # n /\ last_child[m] # n /\ next_sibling[m] # n /\ previous_sibling[m] # n

\* C27: after optimize with remove_comments on, every Comment node whose
\* contents are not `[if ...]` or `[endif]` is detached (consecutive ones
\* and first or last children too), every conditional comment is kept in
\* its place, and the walk is not stopped or shortened by a node detached
\* during its own visit: every node of the given tree, so every sibling
\* after a removed comment or meta element, is visited once, in document
\* order, and is left as the closure leaves it when called on it alone.
C27_CommentsRemovedWalkComplete ==
  (pc = "walked" /\ opts.remove_comments) =>
    /\ \A n \in PlainComments : Detached(n)
    /\ \A p \in NodesOf(given.D) \ PlainComments :
         ChildList(Links, NodesOf(data), p)
           = SelectSeq(ChildList(given.L, NodesOf(given.D), p),
                       LAMBDA c : c \notin PlainComments \cup RemovedMetas)
    /\ \A n \in ConditionalComments : parent[n] = given.L.parent[n]
    /\ visited = PreOrder(given.L, NodesOf(given.D), Document, Len(given.D))
    /\ \A n \in NodesOf(given.D) :
         data[n] = optimize_visit([L |-> given.L, D |-> given.D], n, opts).D[n]

\* two consecutive comments were removed, the second one a last child or
\* followed by an element that was then visited and rewritten, beside a
\* conditional comment that was kept
C27_Witness ==
  /\ pc = "walked" /\ opts.remove_comments
  /\ \E n, m \in PlainComments :
       /\ given.L.next_sibling[n] = m
       /\ Detached(n) /\ Detached(m)
       /\ \E e \in NodesOf(given.D) :
            /\ given.L.next_sibling[m] = e
            /\ given.D[e].kind = "Element"
            /\ data[e] # given.D[e]
            /\ VisitIndex(e) > VisitIndex(m)

C27_WitnessConditional ==
  /\ pc = "walked" /\ opts.remove_comments
  /\ \E n \in PlainComments, c \in ConditionalComments :
       given.L.next_sibling[n] = c /\ Detached(n) /\ parent[c] # None


(***************************************************************************)
(* The interner of the core crate (src/crates/core/src/intern.rs).         *)
(* An Entry is leaked on the heap and never freed: leaked[p] is the Entry  *)
(* at address p.  An Interned value is the address of an Entry, and two    *)
(* Interned values are equal when std::ptr::eq says so (intern.rs:97-102). *)
(* The DashMap compares its keys by value, so map is keyed by the data;    *)
(* NoEntry is a key that is not in the map.  The shards only decide which  *)
(* lock is taken: two equal values are always in the same shard.           *)
(***************************************************************************)
MaxThreads == 2
MaxEntries == 4
InternThreads == 1..MaxThreads
InternValues == {"a", "b"}
NoEntry == 0

\* the document state of the runs that only use the core crate
IdleHtml ==
  /\ SetLinksInit(EmptyLinks({}))
  /\ data = <<>>
  /\ allocated = 0
  /\ calls = 0
  /\ misused = FALSE
  /\ IdleWalk
  /\ IdleCollector
  /\ IdleSerializer

\* Interner::new: an empty map, nothing leaked, no thread inside intern
InitIntern ==
  /\ map = [v \in InternValues |-> NoEntry]
  /\ leaked = <<>>
  /\ threads = [t \in InternThreads |-> [at |-> "idle", value |-> "a"]]
  /\ interned = {}
  /\ graph = <<>> /\ request_index = <<>> /\ frames = <<>> /\ history = <<>>
  /\ IdleHtml
  /\ pc = "intern"

\* intern, lines 41-48: under the read lock of the shard, return the entry
\* the map has for the value; otherwise go on to create one
InternLookup ==
  \E t \in InternThreads, value \in InternValues :
    /\ pc = "intern"
    /\ threads[t].at = "idle"
    /\ IF map[value] # NoEntry
         THEN /\ interned' = interned \cup {map[value]}
              /\ UNCHANGED threads
         ELSE /\ Len(leaked) + Cardinality({u \in InternThreads : threads[u].at = "insert"}) < MaxEntries
              /\ threads' = [threads EXCEPT ![t] = [at |-> "insert", value |-> value]]
              /\ UNCHANGED interned
    /\ UNCHANGED <<map, leaked, trackerVars, htmlVars>>

\* intern, lines 53-57: leak a new Entry, put it in the map under the write
\* lock (HashMap::insert replaces what the key had) and return its address
InternInsert ==
  \E t \in InternThreads :
    /\ pc = "intern"
    /\ threads[t].at = "insert"
    /\ leaked' = Append(leaked, [data |-> threads[t].value])
    /\ map' = [map EXCEPT ![threads[t].value] = Len(leaked) + 1]
    /\ interned' = interned \cup {Len(leaked) + 1}
    /\ threads' = [threads EXCEPT ![t].at = "idle"]
    /\ UNCHANGED <<trackerVars, htmlVars>>

\* Interner::clear: the map is emptied; the leaked entries stay
InternClear ==
  /\ pc = "intern"
  /\ map' = [v \in InternValues |-> NoEntry]
  /\ UNCHANGED <<leaked, threads, interned, trackerVars, htmlVars>>

NextIntern == InternLookup \/ InternInsert \/ InternClear

SpecIntern == InitIntern /\ [][NextIntern]_vars

\* PartialEq for Interned: std::ptr::eq of the two entries
InternedEq(p, q) == p = q

\* C28: after any interleaving of intern and clear calls on one Interner, two
\* Interned values compare equal exactly when their data are equal
C28_InternedUnique ==
  \A p, q \in interned : InternedEq(p, q) <=> (leaked[p].data = leaked[q].data)

\* equal pointers do have equal data; it is the converse that fails
C28_EqualPointersEqualData ==
  \A p, q \in interned : InternedEq(p, q) => (leaked[p].data = leaked[q].data)

\* while every leaked entry is the one the map holds for its data (no clear
\* and no second insertion of a value has happened), equal data have one pointer
C28_UniqueWhileMapComplete ==
  (\A p \in 1..Len(leaked) : map[leaked[p].data] = p)
    => \A p, q \in interned : InternedEq(p, q) <=> (leaked[p].data = leaked[q].data)

\* two threads interned equal values at the same time and got two pointers
C28_RaceSeen ==
  \E p, q \in interned :
    /\ p # q
    /\ leaked[p].data = leaked[q].data
    /\ map[leaked[p].data] = q


(***************************************************************************)
(* The request tracker of the parcel crate                                 *)
(* (src/crates/parcel/src/request_tracker/request_tracker.rs).             *)
(* graph.nodes[i] is the weight of the node with NodeIndex i - 1, so the   *)
(* Root is graph.nodes[1]; graph.edges is the set of the SubRequest edges  *)
(* (petgraph keeps parallel edges, the set keeps one of each).             *)
(* request_index[id] is the node of the request id, NoNode when the        *)
(* HashMap has no entry.  The tracker is used through &mut self, so calls  *)
(* nest but never interleave: frames is the stack of the calls of          *)
(* run_child_request whose request is running.                             *)
(***************************************************************************)
MaxRequestDepth == 2
MaxEvents == 5
RequestIds == {1, 2}
RequestValues == {1, 2}
NoNode == 0
NoParent == 0
RootNode == 1

RootWeight == [kind |-> "Root", value |-> 0]
Incomplete == [kind |-> "Incomplete", value |-> 0]
Valid(value) == [kind |-> "Valid", value |-> value]
ErrorWeight == [kind |-> "Error", value |-> 0]
NoWeight == [kind |-> "NoWeight", value |-> 0]

\* what Request::run may hand back: Ok(RequestResult) with some value or Err
RunOutcomes == {[kind |-> "Ok", value |-> v] : v \in RequestValues} \cup {[kind |-> "Err", value |-> 0]}

\* the weight a request id has in the tracker T, NoWeight when it has no node
WeightOf(T, request_id) ==
  IF T.request_index[request_id] = NoNode THEN NoWeight
  ELSE T.graph.nodes[T.request_index[request_id]]

SetWeight(T, request_id, weight) ==
  [T EXCEPT !.graph.nodes[T.request_index[request_id]] = weight]

\* RequestTracker::new
NewTracker ==
  [graph |-> [nodes |-> <<RootWeight>>, edges |-> {}],
   request_index |-> [id \in RequestIds |-> NoNode]]

\* prepare_request without the test for a Valid node
prepare_request_always(T, request_id) ==
  LET T1 == IF T.request_index[request_id] # NoNode THEN T
            ELSE [graph |-> [T.graph EXCEPT !.nodes = Append(@, Incomplete)],
                  request_index |-> [T.request_index EXCEPT ![request_id] = Len(T.graph.nodes) + 1]]
  IN [tracker |-> SetWeight(T1, request_id, Incomplete), value |-> TRUE]

\* prepare_request: (tracker, whether the request has to run)
prepare_request(T, request_id) ==
  LET T1 == IF T.request_index[request_id] # NoNode THEN T
            ELSE [graph |-> [T.graph EXCEPT !.nodes = Append(@, Incomplete)],
                  request_index |-> [T.request_index EXCEPT ![request_id] = Len(T.graph.nodes) + 1]]
  IN IF WeightOf(T1, request_id).kind = "Valid"
       THEN [tracker |-> T1, value |-> FALSE]
       ELSE [tracker |-> SetWeight(T1, request_id, Incomplete), value |-> TRUE]

\* store_request without the test for a Valid node
store_request_overwrite(T, request_id, res) ==
  IF T.request_index[request_id] = NoNode
    THEN [tracker |-> T, kind |-> "Err"]
    ELSE [tracker |-> SetWeight(T, request_id,
                                IF res.kind = "Ok" THEN Valid(res.value) ELSE ErrorWeight),
          kind |-> "Ok"]

\* store_request: (tracker, Ok or Err)
store_request(T, request_id, res) ==
  IF T.request_index[request_id] = NoNode
    THEN [tracker |-> T, kind |-> "Err"]
    ELSE IF WeightOf(T, request_id).kind = "Valid"
      THEN [tracker |-> T, kind |-> "Ok"]
      ELSE [tracker |-> SetWeight(T, request_id,
                                  IF res.kind = "Ok" THEN Valid(res.value) ELSE ErrorWeight),
            kind |-> "Ok"]

\* get_request: (tracker, Ok(value) or Err)
get_request(T, parent_request_hash, request_id) ==
  IF T.request_index[request_id] = NoNode
    THEN [tracker |-> T, kind |-> "Err", value |-> 0]
    ELSE IF parent_request_hash # NoParent /\ T.request_index[parent_request_hash] = NoNode
      THEN [tracker |-> T, kind |-> "Err", value |-> 0]
      ELSE LET from == IF parent_request_hash # NoParent
                         THEN T.request_index[parent_request_hash] ELSE RootNode
               T1 == [T EXCEPT !.graph.edges = @ \cup {<<from, T.request_index[request_id]>>}]
               weight == WeightOf(T1, request_id)
           IN IF weight.kind = "Valid"
                THEN [tracker |-> T1, kind |-> "Ok", value |-> weight.value]
                ELSE [tracker |-> T1, kind |-> "Err", value |-> 0]

Tracker == [graph |-> graph, request_index |-> request_index]

SetTracker(T) ==
  /\ graph' = T.graph
  /\ request_index' = T.request_index

InitTracker ==
  /\ graph = NewTracker.graph
  /\ request_index = NewTracker.request_index
  /\ frames = <<>>
  /\ history = <<>>
  /\ map = <<>> /\ leaked = <<>> /\ threads = <<>> /\ interned = {}
  /\ IdleHtml
  /\ pc = "tracker"

\* the parent hash of a new call: None from run_request, the id of the running
\* request from the RunRequestContext that run_child_request gave it (line 65)
CallerParent == IF frames = <<>> THEN NoParent ELSE frames[Len(frames)].id

\* run_request / run_child_request up to the call of request.run (lines
\* 62-65), and to its return (line 69) when the request does not run
TrackerCall ==
  \E request_id \in RequestIds :
    \E prepared \in {prepare_request(Tracker, request_id)} :
      /\ pc = "tracker"
      /\ Len(history) < MaxEvents
      /\ IF prepared.value
           THEN /\ Len(frames) < MaxRequestDepth
                /\ frames' = Append(frames, [id |-> request_id, parent |-> CallerParent])
                /\ SetTracker(prepared.tracker)
                /\ history' = Append(history,
                     [step |-> "call", id |-> request_id, ran |-> TRUE,
                      before |-> WeightOf(Tracker, request_id),
                      after |-> WeightOf(prepared.tracker, request_id),
                      returned |-> [kind |-> "Running", value |-> 0]])
           ELSE \E got \in {get_request(prepared.tracker, CallerParent, request_id)} :
                /\ UNCHANGED frames
                /\ SetTracker(got.tracker)
                /\ history' = Append(history,
                     [step |-> "call", id |-> request_id, ran |-> FALSE,
                      before |-> WeightOf(Tracker, request_id),
                      after |-> WeightOf(got.tracker, request_id),
                      returned |-> [kind |-> got.kind, value |-> got.value]])
      /\ UNCHANGED <<internVars, htmlVars>>

\* run_child_request from the return of request.run of the innermost call
\* (lines 65-69): store_request, then get_request unless storing failed
TrackerReturn ==
  \E res \in RunOutcomes :
    /\ pc = "tracker"
    /\ frames # <<>>
    /\ LET frame == frames[Len(frames)]
           stored == store_request(Tracker, frame.id, res)
           got == get_request(stored.tracker, frame.parent, frame.id)
           final == IF stored.kind = "Err" THEN stored.tracker ELSE got.tracker
       IN /\ SetTracker(final)
          /\ history' = Append(history,
               [step |-> "return", id |-> frame.id, ran |-> TRUE,
                before |-> WeightOf(Tracker, frame.id),
                after |-> WeightOf(final, frame.id),
                returned |-> IF stored.kind = "Err" THEN [kind |-> "Err", value |-> 0]
                             ELSE [kind |-> got.kind, value |-> got.value]])
    /\ frames' = SubSeq(frames, 1, Len(frames) - 1)
    /\ UNCHANGED <<internVars, htmlVars>>

NextTracker == TrackerCall \/ TrackerReturn

SpecTracker == InitTracker /\ [][NextTracker]_vars

C29_WitnessNested ==
  \E i \in DOMAIN history :
    /\ history[i].step = "return"
    /\ history[i].before.kind = "Valid"
    /\ history[i].after = history[i].before


(***************************************************************************)
(* serialize, one call of start_elem, end_elem or of a write_* at a time   *)
(* (serialize.rs:108-285).  position is where the recursion of             *)
(* serialize_node is: about to enter a node, or about to call end_elem of  *)
(* an element whose children are done.  A failed write returns its Err     *)
(* through every ? up to the caller of serialize: start_elem then has not  *)
(* pushed (its pushes come after its writes), end_elem has popped (its pop *)
(* comes first).  opened lists the elements whose start_elem has returned  *)
(* Ok and whose end_elem has not been called.                              *)
(***************************************************************************)
SerializeStepTrees ==
  {doc.tree : doc \in SerializeDocuments}
    \cup {SvgDocument(kids) : kids \in SeqsUpTo(SvgKids, MaxSvgKids)}

InitSerializeSteps ==
  \E tree \in SerializeStepTrees, room \in {-1, MaxRoom} :
    /\ SetLinksInit(tree.L)
    /\ data = tree.D
    /\ allocated = Len(tree.D)
    /\ given = [L |-> tree.L, D |-> tree.D, room |-> room]
    /\ deps = <<>> /\ assets = <<>> /\ errors = <<>>
    /\ has_module_scripts = FALSE
    /\ opts = [scope_hoist |-> FALSE, supports_esm |-> FALSE, hmr |-> FALSE]
    /\ origins = [deps |-> <<>>, assets |-> <<>>]
    /\ out = <<>>
    /\ result = [kind |-> "none"]
    /\ calls = 0
    /\ misused = FALSE
    /\ IdleWalk
    /\ IdleCore
    /\ serializer = Writer(room)
    /\ position = [node |-> Document, phase |-> "enter"]
    /\ opened = <<>>
    /\ pc = "serializing"

\* where serialize_node goes on when it is done with node n: the next
\* sibling, else the end_elem of the parent, else (under the Document) the
\* return of serialize
SerializeAfter(L, D, n) ==
  IF n = Document THEN [node |-> None, phase |-> "done"]
  ELSE IF L.next_sibling[n] # None THEN [node |-> L.next_sibling[n], phase |-> "enter"]
  ELSE IF D[L.parent[n]].kind = "Element" THEN [node |-> L.parent[n], phase |-> "exit"]
  ELSE [node |-> None, phase |-> "done"]

SerializeGoesOn(w, to) ==
  /\ serializer' = w
  /\ position' = to
  /\ pc' = IF to.phase = "done" THEN "serialized" ELSE "serializing"

SerializeFails(w) ==
  /\ serializer' = w
  /\ pc' = "failed"
  /\ UNCHANGED position

\* parent() and end_elem panic on an empty stack (create_missing_parent is
\* false in SerializeOpts::default())
SerializePanics ==
  /\ pc' = "panic"
  /\ UNCHANGED <<serializer, position, opened>>

SerializeFrame == UNCHANGED <<coreVars, linkVars, data, allocated, walkVars, collectorVars, calls, misused>>

\* serialize_node at a node: start_elem of an element, the children of the
\* Document, or the write of a comment, doctype, processing instruction or text
SerializeEnter ==
  /\ pc = "serializing"
  /\ position.phase = "enter"
  /\ LET n == position.node
     IN CASE data[n].kind = "Document" ->
               /\ SerializeGoesOn(serializer,
                    IF first_child[n] # None THEN [node |-> first_child[n], phase |-> "enter"]
                    ELSE SerializeAfter(Links, data, n))
               /\ UNCHANGED opened
          [] data[n].kind = "Element" ->
               IF serializer.stack = <<>> THEN SerializePanics
               ELSE \E w \in {start_elem(serializer, Links, data, n)} :
                      IF w.failed
                        THEN /\ SerializeFails([w EXCEPT !.stack = serializer.stack])
                             /\ UNCHANGED opened
                        ELSE /\ SerializeGoesOn(w,
                                  IF first_child[n] # None
                                    THEN [node |-> first_child[n], phase |-> "enter"]
                                    ELSE [node |-> n, phase |-> "exit"])
                             /\ opened' = Append(opened, n)
          [] OTHER ->
               IF data[n].kind = "Text" /\ serializer.stack = <<>> THEN SerializePanics
               ELSE \E w \in {serialize_node(serializer, Links, data, n)} :
                      /\ IF w.failed THEN SerializeFails(w)
                         ELSE SerializeGoesOn(w, SerializeAfter(Links, data, n))
                      /\ UNCHANGED opened
  /\ SerializeFrame

\* serialize_node after the children of an element: end_elem
SerializeExit ==
  /\ pc = "serializing"
  /\ position.phase = "exit"
  /\ IF serializer.stack = <<>> THEN SerializePanics
     ELSE \E w \in {end_elem(serializer, Links, data, position.node)} :
            /\ IF w.failed THEN SerializeFails(w)
               ELSE SerializeGoesOn(w, SerializeAfter(Links, data, position.node))
            /\ opened' = SubSeq(opened, 1, Len(opened) - 1)
  /\ SerializeFrame

NextSerializeSteps == SerializeEnter \/ SerializeExit

SpecSerializeSteps == InitSerializeSteps /\ [][NextSerializeSteps]_vars

\* C30: during serialize the ElemInfo stack has the initial entry and one
\* entry for each element that is started and not ended, in their order and
\* with their html names, whether or not the tag was written; end_elem and
\* parent never find the stack empty; when serialize returns Ok only the
\* initial entry is left
C30_StackMirrorsOpenElements ==
  /\ pc # "panic"
  /\ Len(serializer.stack) = 1 + Len(opened)
  /\ \A i \in 1..Len(opened) : serializer.stack[i + 1].html_name = html_name_of(data[opened[i]])
  /\ pc = "serialized" => serializer.stack = Writer(-1).stack

\* an element is open inside an element whose children are not written, and
\* both are below an html element whose start tag was omitted
C30_Witness ==
  /\ pc = "serializing"
  /\ Len(opened) >= 3
  /\ data[opened[1]].local = "html"
  /\ data[opened[1]].attrs = <<>>
  /\ serializer.out # <<>>
  /\ serializer.out[2] # "h"
  /\ \E i \in 2..Len(opened) :
       /\ serializer.stack[i].ignore_children
       /\ serializer.stack[i + 1].ignore_children

\* serialize returned Ok after elements had been opened and closed
C30_WitnessReturned ==
  /\ pc = "serialized"
  /\ ~serializer.failed
  /\ serializer.out # <<>>
  /\ opened = <<>>

\* a write failed while elements were open
C30_WitnessFailed ==
  /\ pc = "failed"
  /\ Len(opened) >= 2


\* the steps write what serialize writes in one go
C30_StepsWriteWhatSerializeWrites ==
  pc \in {"serialized", "failed"}
    => serializer.out = serialize(Writer(given.room), given.L, given.D, Document).out

====
